---- MODULE Spec2Model ----
(***************************************************************************)
(* A model of RiskAssessor's scoring and correlation core:                 *)
(*   - IssueCatalog / FeedbackCatalog (core/issue_catalog.py,              *)
(*     core/feedback.py): load-all / replace-by-key / save-all stores;     *)
(*   - ComplexityAnalyzer (analyzers/complexity.py);                       *)
(*   - RiskEngine contract generation (core/risk_engine.py).               *)
(*                                                                         *)
(* Numbers.  The program computes with Python floats.  The model computes  *)
(* with exact rationals <<n, d>> (d > 0, lowest terms), so a comparison    *)
(* against a cutoff is the comparison of the real values; a float result   *)
(* can differ from the real one in its last bit only.                      *)
(*                                                                         *)
(* Paths.  A path is a sequence of fragments ("src/", "api", ".py"); the   *)
(* fragments are chosen so that one path's text occurs in another's        *)
(* exactly when its fragment sequence occurs in the other's.               *)
(***************************************************************************)
EXTENDS Integers, Sequences, FiniteSets, TLC

VARIABLES
    cls,        \* cls[h]: the class of catalog object h
    records,    \* records[h]: IssueCatalog.issues / FeedbackCatalog.entries of h
    status,     \* status[h]: "none" (no object) | "ready" | "load_error"
    file,       \* file[p]: the backing store at path p
    dom,        \* the records the environment may hand to the add operations
    config,     \* the engine's Config (thresholds, weights, whether an LLM is configured)
    call,       \* the query just made (operation, arguments); "none" after an update
    ret,        \* what that query returned
    latest,     \* observer: latest[h] = the record most recently added per key
    readd,      \* observer: progress through the schedule load, add x, add x' (same key)
    sched,      \* observer: progress through the schedule load,load,add,add,save,save
    sx          \* observer: <<x>>, the record the first writer added in that schedule

catVars == <<cls, records, status, file, dom>>
obsVars == <<latest, readd, sched, sx>>
engVars == <<config>>
callVars == <<call, ret>>
vars == <<catVars, obsVars, engVars, callVars>>

(***************************************************************************)
(* Bounds of the model.                                                    *)
(***************************************************************************)
MaxVersion == 2     \* distinct payloads per catalog key

NoCall == call = [op |-> "none"] /\ ret = <<>>

\* an operation that returns None: there is no query result to speak of
ReturnsNone == call' = [op |-> "none"] /\ ret' = <<>>

\* the two ways a call ends
Returned(v) == [error |-> "", value |-> v]
Raised(e) == [error |-> e, value |-> <<>>]

(***************************************************************************)
(* Exact rational arithmetic: <<n, d>> with d > 0, in lowest terms.        *)
(***************************************************************************)
RECURSIVE GCD(_, _)
GCD(a, b) == IF b = 0 THEN a ELSE GCD(b, a % b)

Abs(a) == IF a < 0 THEN 0 - a ELSE a

Rat(n, d) ==
    LET g == GCD(Abs(n), d) IN <<n \div g, d \div g>>

LCM(a, b) == (a \div GCD(a, b)) * b

RAdd(x, y) ==
    LET l == LCM(x[2], y[2]) IN Rat(x[1] * (l \div x[2]) + y[1] * (l \div y[2]), l)

RMul(x, y) ==
    LET a == GCD(Abs(x[1]), y[2])
        b == GCD(Abs(y[1]), x[2])
    IN  Rat((x[1] \div a) * (y[1] \div b), (x[2] \div b) * (y[2] \div a))

RLt(x, y) == LET l == LCM(x[2], y[2]) IN x[1] * (l \div x[2]) < y[1] * (l \div y[2])
RLe(x, y) == ~RLt(y, x)
RMin(x, y) == IF RLt(y, x) THEN y ELSE x
RMax(x, y) == IF RLt(x, y) THEN y ELSE x

Zero == Rat(0, 1)
One == Rat(1, 1)

(***************************************************************************)
(* Configuration.                                                          *)
(***************************************************************************)
\* RiskThresholds' defaults; llm: whether config.llm.api_key is set
DefaultConfig ==
    [low_threshold |-> Rat(3, 10), medium_threshold |-> Rat(6, 10), high_threshold |-> Rat(8, 10),
     complexity_weight |-> Rat(3, 10), history_weight |-> Rat(3, 10), llm_weight |-> Rat(4, 10),
     llm |-> FALSE, github |-> TRUE, jira |-> TRUE, regional |-> FALSE,
     catalog_path |-> "catalog.json"]

(***************************************************************************)
(* Sequences.                                                              *)
(***************************************************************************)
Range(s) == {s[i] : i \in 1..Len(s)}

\* list.remove(x): drops the first element equal to x
RECURSIVE list_remove(_, _)
list_remove(s, x) ==
    IF s = <<>> THEN <<>>
    ELSE IF Head(s) = x THEN Tail(s)
    ELSE <<Head(s)>> \o list_remove(Tail(s), x)

(***************************************************************************)
(* Catalog objects and their stores.                                       *)
(***************************************************************************)
Handles == {"h1", "h2"}
StorePaths == {"catalog.json", "feedback.json", "elsewhere/catalog.json"}

\* IssueCatalog.__init__ / FeedbackCatalog.__init__: the path of the object
StoreOf(h) == IF cls[h] = "IssueCatalog" THEN config.catalog_path ELSE "feedback.json"

NoFile == [exists |-> FALSE, complete |-> FALSE, recs |-> <<>>]

NoneSeverity == "None"      \* CatalogedIssue.severity is None

\* CatalogedIssue (the fields the model reads)
Issue(source, identifier, title, severity, related_files) ==
    [source |-> source, identifier |-> identifier, title |-> title,
     severity |-> severity, related_files |-> related_files]

\* FeedbackEntry (the fields the model reads); incident_date is
\* [kind |-> "naive" | "aware" | "unparsable", days_ago |-> Int]
Entry(id, description, severity, incident_date, affected_files) ==
    [id |-> id, description |-> description, severity |-> severity,
     incident_date |-> incident_date, affected_files |-> affected_files]

Today == [kind |-> "naive", days_ago |-> 0]

CatalogIssues ==
    {Issue(s, "1", t, "high", <<>>) : s \in {"github", "jira"}, t \in 1..MaxVersion}

CatalogEntries ==
    {Entry(i, d, "high", Today, <<>>) : i \in {"feedback-1", "feedback-2"}, d \in 1..MaxVersion}

\* The key the data model gives a record: (source, identifier), or id
KeyOf(r, c) == IF c = "IssueCatalog" THEN <<r.source, r.identifier>> ELSE <<r.id>>

\* IssueCatalog.find_issue: index of the first issue with the key, 0 for None
RECURSIVE find_issue_from(_, _, _, _)
find_issue_from(issues, i, source, identifier) ==
    IF i > Len(issues) THEN 0
    ELSE IF issues[i].source = source /\ issues[i].identifier = identifier THEN i
    ELSE find_issue_from(issues, i + 1, source, identifier)

find_issue_ident_only(issues, source, identifier) ==
    LET hits == {i \in 1..Len(issues) : issues[i].identifier = identifier}
    IN  IF hits = {} THEN 0 ELSE CHOOSE i \in hits : \A j \in hits : i <= j

find_issue(issues, source, identifier) == find_issue_from(issues, 1, source, identifier)

\* IssueCatalog.add_issue
add_issue(issues, issue) ==
    LET existing == find_issue(issues, issue.source, issue.identifier)
    IN  IF existing # 0
        THEN Append(list_remove(issues, issues[existing]), issue)
        ELSE Append(issues, issue)

\* IssueCatalog.add_issues
RECURSIVE add_issues(_, _)
add_issues(issues, batch) ==
    IF batch = <<>> THEN issues
    ELSE add_issues(add_issue(issues, Head(batch)), Tail(batch))

\* FeedbackCatalog.find_by_id
RECURSIVE find_by_id_from(_, _, _)
find_by_id_from(entries, i, entry_id) ==
    IF i > Len(entries) THEN 0
    ELSE IF entries[i].id = entry_id THEN i
    ELSE find_by_id_from(entries, i + 1, entry_id)

find_by_id(entries, entry_id) == find_by_id_from(entries, 1, entry_id)

\* FeedbackCatalog.add_feedback
add_feedback(entries, entry) ==
    LET existing == find_by_id(entries, entry.id)
    IN  IF existing # 0
        THEN Append(list_remove(entries, entries[existing]), entry)
        ELSE Append(entries, entry)

\* json.dump of a value of a record's dict: None is null, a str a string, a
\* list of str an array of strings
JNull == [type |-> "null"]
JString(s) == [type |-> "string", value |-> s]
JArray(xs) == [type |-> "array", items |-> [i \in 1..Len(xs) |-> JString(xs[i])]]
JOptional(v) == IF v = NoneSeverity THEN JNull ELSE JString(v)

\* to_dict: asdict(self), the record's fields by name
to_dict(rec) == rec

\* json.dump of one dict of the list, by the class's field types
json_dump(data, c) ==
    IF c = "IssueCatalog"
    THEN [source |-> JString(data.source), identifier |-> JString(data.identifier),
          title |-> JString(data.title), severity |-> JOptional(data.severity),
          related_files |-> JArray(data.related_files)]
    ELSE [id |-> JString(data.id), description |-> JString(data.description),
          severity |-> JString(data.severity),
          incident_date |-> JString(data.incident_date),
          affected_files |-> JArray(data.affected_files)]

\* json.load of a value: null is None, a string a str, an array a list
json_value(j) ==
    IF j.type = "null" THEN NoneSeverity
    ELSE IF j.type = "string" THEN j.value
    ELSE [i \in 1..Len(j.items) |-> j.items[i].value]

\* json.load of one object of the list
json_load(obj) == [k \in DOMAIN obj |-> json_value(obj[k])]

\* from_dict dropping the record's file list
from_dict_without_files(data) ==
    [k \in DOMAIN data |->
        IF k \in {"related_files", "affected_files"} THEN <<>> ELSE data[k]]

\* from_dict: cls(**data)
from_dict(data) == data

\* _load: what json.load makes of the store (a store cut short is no JSON)
load_ok(f) == (~f.exists) \/ f.complete
\* _load, had it started every catalog empty
load_records_empty(f) == <<>>

load_records(f) ==
    IF f.exists THEN [i \in 1..Len(f.recs) |-> from_dict(json_load(f.recs[i]))] ELSE <<>>

\* save, merged with the store's present records instead of overwriting it
save_merged(f, recs, c) ==
    LET mine == {KeyOf(recs[i], c) : i \in 1..Len(recs)}
        kept == SelectSeq(load_records(f), LAMBDA r : KeyOf(r, c) \notin mine)
        all == kept \o recs
    IN  [exists |-> TRUE, complete |-> TRUE,
         recs |-> [i \in 1..Len(all) |-> json_dump(to_dict(all[i]), c)]]

\* save: open(path, 'w') and json.dump of the whole in-memory list
save_file(f, recs, c) ==
    [exists |-> TRUE, complete |-> TRUE,
     recs |-> [i \in 1..Len(recs) |-> json_dump(to_dict(recs[i]), c)]]

\* save cut short after open(path, 'w') truncated the store and n records were written
save_cut(recs, n, c) ==
    [exists |-> TRUE, complete |-> FALSE,
     recs |-> [i \in 1..n |-> json_dump(to_dict(recs[i]), c)]]

(***************************************************************************)
(* Observers (history the claims speak of; the program does not read them) *)
(***************************************************************************)
\* The schedule: h1 loads, h2 loads, h1 adds x, h2 adds y (another key), h1 saves, h2 saves
sched_next(op, h, r) ==
    IF sched = "start" /\ op = "load" /\ h = "h1" THEN "loaded1"
    ELSE IF sched = "loaded1" /\ op = "load" /\ h = "h2" THEN "loaded2"
    ELSE IF sched = "loaded2" /\ op = "add" /\ h = "h1" THEN "added1"
    ELSE IF /\ sched = "added1" /\ op = "add" /\ h = "h2"
            /\ KeyOf(r, cls[h]) # KeyOf(sx[1], cls[h]) THEN "added2"
    ELSE IF sched = "added2" /\ op = "save" /\ h = "h1" THEN "saved1"
    ELSE IF sched = "saved1" /\ op = "save" /\ h = "h2" THEN "saved2"
    ELSE "off"

\* The schedule: h1 loads, h1 adds x, h1 adds another record with x's key
readd_next(op, h, r) ==
    IF readd = <<>> /\ op = "load" /\ h = "h1" THEN <<"loaded">>
    ELSE IF readd = <<"loaded">> /\ op = "add" /\ h = "h1" THEN <<"added", r>>
    ELSE IF /\ Len(readd) = 2 /\ readd[1] = "added" /\ op = "add" /\ h = "h1"
            /\ KeyOf(r, cls[h]) = KeyOf(readd[2], cls[h]) /\ r # readd[2]
         THEN <<"readded", r>>
    ELSE <<"off">>

Observe(op, h, r) ==
    /\ sched' = sched_next(op, h, r)
    /\ sx' = IF sched_next(op, h, r) = "off" THEN <<>>
             ELSE IF sched = "loaded2" THEN <<r>> ELSE sx
    /\ readd' = readd_next(op, h, r)

latest_after(h, r) ==
    {o \in latest[h] : KeyOf(o, cls[h]) # KeyOf(r, cls[h])} \cup {r}

(***************************************************************************)
(* Catalog operations.                                                     *)
(***************************************************************************)
\* IssueCatalog(path) / FeedbackCatalog(path): a fresh object, then _load
Construct(h) ==
    LET f == file[StoreOf(h)] IN
    /\ cls[h] # "none"
    /\ IF load_ok(f)
       THEN /\ records' = [records EXCEPT ![h] = load_records(f)]
            /\ status' = [status EXCEPT ![h] = "ready"]
            /\ latest' = [latest EXCEPT ![h] = Range(load_records(f))]
       ELSE /\ records' = [records EXCEPT ![h] = <<>>]
            /\ status' = [status EXCEPT ![h] = "load_error"]
            /\ latest' = [latest EXCEPT ![h] = {}]
    /\ Observe("load", h, <<>>)
    /\ UNCHANGED <<cls, file, dom>>
    /\ UNCHANGED engVars
    /\ ReturnsNone

AddIssue(h, issue) ==
    /\ cls[h] = "IssueCatalog" /\ status[h] = "ready"
    /\ records' = [records EXCEPT ![h] = add_issue(@, issue)]
    /\ latest' = [latest EXCEPT ![h] = latest_after(h, issue)]
    /\ Observe("add", h, issue)
    /\ UNCHANGED <<cls, status, file, dom>>
    /\ UNCHANGED engVars
    /\ ReturnsNone

AddIssues(h, a, b) ==
    /\ cls[h] = "IssueCatalog" /\ status[h] = "ready"
    /\ records' = [records EXCEPT ![h] = add_issues(@, <<a, b>>)]
    /\ latest' = [latest EXCEPT ![h] =
                    {o \in latest_after(h, a) : KeyOf(o, cls[h]) # KeyOf(b, cls[h])} \cup {b}]
    /\ Observe("add_issues", h, <<>>)
    /\ UNCHANGED <<cls, status, file, dom>>
    /\ UNCHANGED engVars
    /\ ReturnsNone

\* add_feedback, had it written the store as well
AddFeedback_saving(h, entry) ==
    /\ cls[h] = "FeedbackCatalog" /\ status[h] = "ready"
    /\ records' = [records EXCEPT ![h] = add_feedback(@, entry)]
    /\ file' = [file EXCEPT ![StoreOf(h)] = save_file(@, records'[h], cls[h])]
    /\ latest' = [latest EXCEPT ![h] = latest_after(h, entry)]
    /\ Observe("add", h, entry)
    /\ UNCHANGED <<cls, status, dom>>
    /\ UNCHANGED engVars
    /\ ReturnsNone

AddFeedback(h, entry) ==
    /\ cls[h] = "FeedbackCatalog" /\ status[h] = "ready"
    /\ records' = [records EXCEPT ![h] = add_feedback(@, entry)]
    /\ latest' = [latest EXCEPT ![h] = latest_after(h, entry)]
    /\ Observe("add", h, entry)
    /\ UNCHANGED <<cls, status, file, dom>>
    /\ UNCHANGED engVars
    /\ ReturnsNone

\* save() running to completion
Save(h) ==
    /\ status[h] = "ready"
    /\ file' = [file EXCEPT ![StoreOf(h)] = save_file(@, records[h], cls[h])]
    /\ Observe("save", h, <<>>)
    /\ UNCHANGED <<cls, records, status, dom, latest>>
    /\ UNCHANGED engVars
    /\ ReturnsNone

\* save() interrupted (the process dies) between open(path, 'w') and the end of json.dump
SaveInterrupted(h, n) ==
    /\ status[h] = "ready"
    /\ n \in 0..Len(records[h])
    /\ file' = [file EXCEPT ![StoreOf(h)] = save_cut(records[h], n, cls[h])]
    /\ status' = [status EXCEPT ![h] = "none"]
    /\ records' = [records EXCEPT ![h] = <<>>]
    /\ latest' = [latest EXCEPT ![h] = {}]
    /\ Observe("crash", h, <<>>)
    /\ UNCHANGED <<cls, dom>>
    /\ UNCHANGED engVars
    /\ ReturnsNone

InitObservers ==
    /\ latest = [h \in Handles |-> {}]
    /\ readd = <<>>
    /\ sched = "start"
    /\ sx = <<>>

\* Two catalog objects of one class on one store, none constructed yet, no store written
InitCatalog ==
    /\ \E c \in {"IssueCatalog", "FeedbackCatalog"} :
          /\ cls = [h \in Handles |-> c]
          /\ dom = IF c = "IssueCatalog" THEN CatalogIssues ELSE CatalogEntries
    /\ records = [h \in Handles |-> <<>>]
    /\ status = [h \in Handles |-> "none"]
    /\ file = [p \in StorePaths |-> NoFile]
    /\ InitObservers
    /\ config = DefaultConfig
    /\ NoCall

NextCatalog ==
    \E h \in Handles :
        \/ Construct(h)
        \/ \E r \in dom : AddIssue(h, r)
        \/ cls[h] = "IssueCatalog" /\ \E a \in dom, b \in dom : a.title = b.title /\ AddIssues(h, a, b)
        \/ \E r \in dom : AddFeedback(h, r)
        \/ Save(h)
        \/ \E n \in 0..Len(records[h]) : SaveInterrupted(h, n)

Spec == InitCatalog /\ [][NextCatalog]_vars

(***************************************************************************)
(* Claims about the catalogs' persistence (checked under Spec).            *)
(***************************************************************************)
\* C1: in either catalog, after any sequence of add operations the catalog
\* holds at most one record per key, that record is the one most recently
\* added for the key, the size is the number of distinct keys added, and
\* re-adding a present key leaves the size unchanged (load, add x, add x'
\* with x's key: the catalog is <<x'>>).
C1_ReplaceByKey ==
    \A h \in Handles : status[h] = "ready" =>
        /\ \A i, j \in 1..Len(records[h]) :
              i # j => KeyOf(records[h][i], cls[h]) # KeyOf(records[h][j], cls[h])
        /\ Range(records[h]) = latest[h]
        /\ Len(records[h]) = Cardinality(latest[h])
        /\ (h = "h1" /\ Len(readd) = 2 /\ readd[1] = "readded") => records[h] = <<readd[2]>>

\* C1 witness: a key was added and then added again with another payload
C1_Witness == Len(readd) = 2 /\ readd[1] = "readded"

\* C2: after the interleaving h1 loads, h2 loads, h1 adds x, h2 adds y
\* (another key), h1 saves, h2 saves, the persisted store does not contain x.
C2_LostUpdate ==
    sched = "saved2" =>
        LET f == file[StoreOf("h2")]
        IN  /\ f.exists /\ f.complete
            /\ sx[1] \in Range(records["h1"])
            /\ sx[1] \notin Range(load_records(f))

\* C2 witness: the interleaving has run to its end
C2_Witness == sched = "saved2"

\* C3: a save is an atomic replace: a save interrupted before it completes
\* leaves a previously saved store as it was, and a catalog constructed on
\* the path loads the records of the store (never fails on a cut store).
C3_AtomicSave ==
    [][\A h \in Handles :
          /\ ( /\ file[StoreOf(h)].exists /\ file[StoreOf(h)].complete
               /\ \E n \in 0..Len(records[h]) : SaveInterrupted(h, n) ) => file' = file
          /\ Construct(h) => /\ status'[h] = "ready"
                             /\ records'[h] = load_records(file[StoreOf(h)])]_vars

(***************************************************************************)
(* File correlation: search_by_files of both catalogs.                     *)
(***************************************************************************)
MaxQuery == 2       \* paths in one query

p_src == <<"src/">>
p_api == <<"src/", "api", ".py">>
p_readme == <<"README", ".md">>
AllPaths == {p_src, p_api, p_readme}

SeqsUpTo(S, n) == UNION {[1..k -> S] : k \in 0..n}

\* Python's  a in b  for strings
str_in(a, b) == \E i \in 0..(Len(b) - Len(a)) : SubSeq(b, i + 1, i + Len(a)) = a

\* the file list a record carries: related_files / affected_files
stored_files(rec, c) == IF c = "IssueCatalog" THEN rec.related_files ELSE rec.affected_files

RECURSIVE any_related_one_way(_, _, _)
any_related_one_way(fl, stored, k) ==
    IF k > Len(stored) THEN FALSE
    ELSE IF str_in(fl, stored[k]) THEN TRUE
    ELSE any_related_one_way(fl, stored, k + 1)

\* any(file in related_file or related_file in file for related_file in stored)
RECURSIVE any_related(_, _, _)
any_related(fl, stored, k) ==
    IF k > Len(stored) THEN FALSE
    ELSE IF str_in(fl, stored[k]) \/ str_in(stored[k], fl) THEN TRUE
    ELSE any_related(fl, stored, k + 1)

\* for file in files: if any(...): matching.append(rec); break
RECURSIVE appended(_, _, _)
appended(rec, stored, files) ==
    IF files = <<>> THEN <<>>
    ELSE IF any_related(Head(files), stored, 1) THEN <<rec>>
    ELSE appended(rec, stored, Tail(files))

\* for rec in self.issues / self.entries: ...; return matching
RECURSIVE search_by_files(_, _, _)
search_by_files(recs, files, c) ==
    IF recs = <<>> THEN <<>>
    ELSE appended(Head(recs), stored_files(Head(recs), c), files)
             \o search_by_files(Tail(recs), files, c)

StoredLists ==
    {<<>>, <<p_src>>, <<p_api>>, <<p_readme>>, <<p_readme, p_api>>, <<p_src, p_readme>>}

SearchRecords(c) ==
    IF c = "IssueCatalog"
    THEN {Issue("github", i, 1, "high", fs) : i \in {"1", "2"}, fs \in StoredLists}
    ELSE {Entry(i, 1, "high", Today, fs) : i \in {"feedback-1", "feedback-2"}, fs \in StoredLists}

\* catalogs as add_issue / add_feedback leave them: one record per key
SearchCatalogs(c) ==
    {cat \in SeqsUpTo(SearchRecords(c), 2) :
        \A i, j \in 1..Len(cat) : KeyOf(cat[i], c) = KeyOf(cat[j], c) => i = j}

SearchByFiles(h, files) ==
    /\ status[h] = "ready"
    /\ call' = [op |-> "search_by_files", h |-> h, files |-> files]
    /\ ret' = search_by_files(records[h], files, cls[h])
    /\ UNCHANGED <<catVars, obsVars, engVars>>

InitSearch ==
    \E c \in {"IssueCatalog", "FeedbackCatalog"} :
        /\ cls = [h \in Handles |-> c]
        /\ dom = SearchRecords(c)
        /\ \E cat \in SearchCatalogs(c) :
               records = [h \in Handles |-> IF h = "h1" THEN cat ELSE <<>>]
        /\ status = [h \in Handles |-> IF h = "h1" THEN "ready" ELSE "none"]
        /\ file = [p \in StorePaths |-> NoFile]
        /\ InitObservers
        /\ config = DefaultConfig
        /\ NoCall

NextSearch == \E files \in SeqsUpTo(AllPaths, MaxQuery) : SearchByFiles("h1", files)

SpecSearch == InitSearch /\ [][NextSearch]_vars

\* C6: search_by_files returns exactly the records having a stored path r and
\* a query path p with r a substring of p or p a substring of r, each once
\* and in catalog order; a record without stored files, or a query without
\* paths, gives no match.
Correlates(rec, c, files) ==
    \E r \in Range(stored_files(rec, c)), q \in Range(files) : str_in(r, q) \/ str_in(q, r)

C6_SearchByFiles ==
    call.op = "search_by_files" =>
        LET c == cls[call.h]
            Hit(rec) == Correlates(rec, c, call.files)
        IN  /\ ret = SelectSeq(records[call.h], Hit)
            /\ \A i, j \in 1..Len(ret) : ret[i] = ret[j] => i = j
            /\ \A i \in 1..Len(ret) : stored_files(ret[i], c) # <<>>
            /\ call.files = <<>> => ret = <<>>

\* a query whose two paths both hit the first record and miss the second
C6_Witness ==
    /\ call.op = "search_by_files"
    /\ Len(records[call.h]) = 2
    /\ Len(call.files) = 2
    /\ call.files[1] # call.files[2]
    /\ \A i \in 1..2 : Correlates(records[call.h][1], cls[call.h], <<call.files[i]>>)
    /\ ~Correlates(records[call.h][2], cls[call.h], call.files)
    /\ stored_files(records[call.h][2], cls[call.h]) # <<>>
    /\ ret = <<records[call.h][1]>>

(***************************************************************************)
(* Save and load of records with every kind of field value (SpecStore).    *)
(***************************************************************************)
\* Issues with and without a severity and related files
StoredIssues ==
    {Issue(s, "1", t, IF t = 1 THEN NoneSeverity ELSE "high",
           IF t = 1 THEN <<p_api, p_readme>> ELSE <<>>) :
        s \in {"github", "jira"}, t \in 1..MaxVersion}

\* Entries with and without affected files, of several incident dates
StoredEntries ==
    {Entry(i, d, IF d = 1 THEN "critical" ELSE "low",
           IF d = 1 THEN Today ELSE [kind |-> "unparsable", days_ago |-> 0],
           IF d = 1 THEN <<p_readme, p_api>> ELSE <<>>) :
        i \in {"feedback-1", "feedback-2"}, d \in 1..MaxVersion}

InitStore ==
    /\ \E c \in {"IssueCatalog", "FeedbackCatalog"} :
          /\ cls = [h \in Handles |-> c]
          /\ dom = IF c = "IssueCatalog" THEN StoredIssues ELSE StoredEntries
    /\ records = [h \in Handles |-> <<>>]
    /\ status = [h \in Handles |-> "none"]
    /\ file = [p \in StorePaths |-> NoFile]
    /\ InitObservers
    /\ config = DefaultConfig
    /\ NoCall

SpecStore == InitStore /\ [][NextCatalog]_vars

\* C21: for either catalog, a save leaves the in-memory sequence unchanged
\* and writes a store from which a catalog constructed on the same path
\* gets the sequence of records that was in memory at the save, in the
\* same order and equal field for field.
C21_SaveLoadRoundTrip ==
    [][\A h \in Handles :
          /\ Save(h) => /\ records' = records
                        /\ load_ok(file'[StoreOf(h)])
                        /\ load_records(file'[StoreOf(h)]) = records[h]
          /\ (Construct(h) /\ file[StoreOf(h)].exists /\ file[StoreOf(h)].complete) =>
                /\ status'[h] = "ready"
                /\ records'[h] = load_records(file[StoreOf(h)])]_vars

\* C21 witness: h1 saved two records, one without a severity and with
\* related files, and h2, constructed on the path, holds the same sequence
C21_Witness ==
    /\ cls["h1"] = "IssueCatalog"
    /\ status["h1"] = "ready" /\ status["h2"] = "ready"
    /\ file[StoreOf("h1")].complete
    /\ Len(records["h1"]) = 2
    /\ records["h1"][1].severity = NoneSeverity
    /\ records["h1"][1].related_files # <<>>
    /\ records["h2"] = records["h1"]

(***************************************************************************)
(* Feedback scoring: FeedbackCatalog.calculate_feedback_risk_score.        *)
(*                                                                         *)
(* incident_date is [kind, days_ago]: kind "naive" (an ISO timestamp       *)
(* without offset), "aware" (with a trailing Z or an offset) or            *)
(* "unparsable"; days_ago is the whole number of days between the date and *)
(* now, negative for a date in the future.                                 *)
(***************************************************************************)
RecentDays == 180

Naive(d) == [kind |-> "naive", days_ago |-> d]
Aware(d) == [kind |-> "aware", days_ago |-> d]
Unparsable == [kind |-> "unparsable", days_ago |-> 0]

\* str.lower on the severities in use
lower(sev) == IF sev = "High" THEN "high" ELSE sev

\* for entry in self.entries: try: fromisoformat(...); if timestamp() > cutoff: append
\* except (ValueError, AttributeError): pass
RECURSIVE get_recent_feedback(_, _)
get_recent_feedback(entries, days) ==
    IF entries = <<>> THEN <<>>
    ELSE LET entry == Head(entries)
             rest == get_recent_feedback(Tail(entries), days)
         IN  IF entry.incident_date.kind = "unparsable" THEN rest
             ELSE IF entry.incident_date.days_ago < days THEN <<entry>> \o rest
             ELSE rest

\* severity_weights.get(severity, 0.5)
severity_weight(severity) ==
    IF severity = "critical" THEN Rat(10, 10)
    ELSE IF severity = "high" THEN Rat(8, 10)
    ELSE IF severity = "medium" THEN Rat(5, 10)
    ELSE IF severity = "low" THEN Rat(3, 10)
    ELSE Rat(5, 10)

\* max(0.5, 1.0 - (days_ago / (recent_days * 2)))
recency_factor(days_ago, recent_days) ==
    RMax(Rat(1, 2), RAdd(One, Rat(0 - days_ago, recent_days * 2)))

\* one pass of the loop body: datetime.now() - incident_date is a TypeError
\* for an aware incident_date, and only ValueError/AttributeError are caught
entry_weight(entry, recent_days) ==
    LET weight == severity_weight(lower(entry.severity)) IN
    IF entry.incident_date.kind = "unparsable" THEN Returned(weight)
    ELSE IF entry.incident_date.kind = "aware" THEN Raised("TypeError")
    ELSE Returned(RMul(weight, recency_factor(entry.incident_date.days_ago, recent_days)))

\* total_weight accumulated over related_feedback, starting from acc
RECURSIVE total_weight(_, _, _)
total_weight(related, recent_days, acc) ==
    IF related = <<>> THEN Returned(acc)
    ELSE LET w == entry_weight(Head(related), recent_days) IN
         IF w.error # "" THEN w
         ELSE total_weight(Tail(related), recent_days, RAdd(acc, w.value))

normalize_unclamped(total) == RMul(total, Rat(1, 3))

\* min(1.0, total_weight / 3.0)
normalize(total) == RMin(One, RMul(total, Rat(1, 3)))

calculate_feedback_risk_score(entries, files_changed, recent_days) ==
    IF files_changed = <<>> THEN Returned(Zero)
    ELSE LET normalized(total) ==
                 IF total.error # "" THEN total ELSE Returned(normalize(total.value))
             scored(related_feedback) ==
                 IF related_feedback = <<>> THEN Returned(Zero)
                 ELSE normalized(total_weight(related_feedback, recent_days, Zero))
         IN  scored(search_by_files(get_recent_feedback(entries, recent_days),
                                    files_changed, "FeedbackCatalog"))

CalculateFeedbackRiskScore(h, files_changed) ==
    /\ cls[h] = "FeedbackCatalog"
    /\ status[h] = "ready"
    /\ call' = [op |-> "calculate_feedback_risk_score", h |-> h, files |-> files_changed]
    /\ ret' = calculate_feedback_risk_score(records[h], files_changed, RecentDays)
    /\ UNCHANGED <<catVars, obsVars, engVars>>

IncidentIds == {"feedback-1", "feedback-2", "feedback-3", "feedback-4"}

\* under the first two ids: incidents on src/api.py of two severities and
\* every kind of date, one of a severity outside the table, and one on
\* another file; under the other ids: a critical incident of today
IncidentsOf(id) ==
    IF id \in {"feedback-3", "feedback-4"} THEN {Entry(id, 1, "critical", Naive(0), <<p_api>>)} ELSE
    {Entry(id, 1, "critical", date, <<p_api>>) :
        date \in {Naive(0), Naive(200), Naive(0 - 720), Aware(0), Unparsable}}
    \cup {Entry(id, 1, "High", date, <<p_api>>) : date \in {Naive(0), Naive(200), Aware(0)}}
    \cup {Entry(id, 1, "sev2", Naive(0), <<p_api>>), Entry(id, 1, "High", Naive(0), <<p_readme>>)}

Incidents == UNION {IncidentsOf(id) : id \in IncidentIds}

ScoreQueries == {<<>>, <<p_api>>, <<p_readme, p_src>>}

InitFeedback ==
    /\ cls = [h \in Handles |-> "FeedbackCatalog"]
    /\ dom = Incidents
    /\ records = [h \in Handles |-> <<>>]
    /\ status = [h \in Handles |-> IF h = "h1" THEN "ready" ELSE "none"]
    /\ file = [p \in StorePaths |-> NoFile]
    /\ InitObservers
    /\ config = DefaultConfig
    /\ NoCall

NextFeedback ==
    \/ \E entry \in dom : AddFeedback("h1", entry)
    \/ \E files \in ScoreQueries : CalculateFeedbackRiskScore("h1", files)

SpecFeedback == InitFeedback /\ [][NextFeedback]_vars

Scoring == call.op = "calculate_feedback_risk_score"

\* the entry passes the recency window and matches the queried files
Scored(entry, files) ==
    /\ entry.incident_date.kind # "unparsable"
    /\ entry.incident_date.days_ago < RecentDays
    /\ Correlates(entry, "FeedbackCatalog", files)

\* the same entry with a timezone-naive date of the same age
AsNaive(entry) ==
    IF entry.incident_date.kind = "aware"
    THEN [entry EXCEPT !.incident_date = Naive(entry.incident_date.days_ago)]
    ELSE entry

\* C4: calculate_feedback_risk_score never raises; entries with an
\* unparsable incident_date are left out of the window, and matching entries
\* dated with a trailing Z or an offset are scored like any other entry.
C4_NeverRaises ==
    Scoring =>
        LET entries == records[call.h]
            parsable == SelectSeq(entries, LAMBDA e : e.incident_date.kind # "unparsable")
            naive == [i \in 1..Len(parsable) |-> AsNaive(parsable[i])]
        IN  /\ ret.error = ""
            /\ ret = calculate_feedback_risk_score(naive, call.files, RecentDays)

\* the score the same query gets from another catalog content
ScoreOf(entries) == calculate_feedback_risk_score(entries, call.files, RecentDays)

NewId(entry) == find_by_id(records[call.h], entry.id) = 0

\* a timezone-naive date within the last recent_days days
InLastDays(date) == date.kind = "naive" /\ date.days_ago >= 0 /\ date.days_ago < RecentDays

\* C5 as stated, for catalogs of incidents dated within the last recent_days
\* days: 0.0 for an empty file list; adding a matching critical or high
\* incident strictly increases the score; the score never decreases with
\* more incidents and never exceeds 1.0.
C5_StrictlyIncreasing ==
    (Scoring /\ \A i \in 1..Len(records[call.h]) : InLastDays(records[call.h][i].incident_date)) =>
        /\ call.files = <<>> => ret = Returned(Zero)
        /\ ret.error = "" /\ RLe(ret.value, One)
        /\ \A e \in dom :
               LET after == ScoreOf(add_feedback(records[call.h], e)) IN
               (NewId(e) /\ InLastDays(e.incident_date)) =>
                   /\ after.error = ""
                   /\ RLe(ret.value, after.value)
                   /\ (lower(e.severity) \in {"critical", "high"}
                          /\ call.files # <<>> /\ Correlates(e, "FeedbackCatalog", call.files))
                          => RLt(ret.value, after.value)

\* C5 (amended): 0.0 for an empty file list; the call raises exactly when a
\* matching aware-dated entry is in the window, and otherwise returns a score
\* in [0, 1]; adding an incident under a new id never lowers the score, and
\* raises it exactly when the incident is scored (parsable date within
\* recent_days, matching file) and the score before was below 1.0; from an
\* empty catalog a matching critical incident dated within the last
\* recent_days days and then a matching high one each raise the score.
C5_Monotone ==
    Scoring =>
        LET entries == records[call.h]
            files == call.files
            Recent(e) == InLastDays(e.incident_date) /\ Correlates(e, "FeedbackCatalog", files)
        IN  /\ files = <<>> => ret = Returned(Zero)
            /\ ret.error \in {"", "TypeError"}
            /\ ret.error = "TypeError" <=>
                   /\ files # <<>>
                   /\ \E i \in 1..Len(entries) :
                          entries[i].incident_date.kind = "aware" /\ Scored(entries[i], files)
            /\ ret.error = "" => RLe(Zero, ret.value) /\ RLe(ret.value, One)
            /\ \A e \in dom :
                   LET after == ScoreOf(add_feedback(entries, e)) IN
                   (NewId(e) /\ ret.error = "" /\ after.error = "") =>
                       /\ RLe(ret.value, after.value)
                       /\ RLt(ret.value, after.value) <=>
                              (files # <<>> /\ Scored(e, files) /\ RLt(ret.value, One))
            /\ (entries = <<>> /\ files # <<>>) =>
                   \A c \in dom, g \in dom :
                       ( /\ c.severity = "critical" /\ lower(g.severity) = "high"
                         /\ c.id # g.id /\ Recent(c) /\ Recent(g) ) =>
                           LET one == ScoreOf(<<c>>)
                               two == ScoreOf(add_feedback(<<c>>, g))
                           IN  /\ one.error = "" /\ two.error = ""
                               /\ RLt(Zero, one.value) /\ RLt(one.value, two.value)

\* the score of a critical and a high incident of today on the queried file
C5_Witness ==
    /\ Scoring
    /\ call.files = <<p_api>>
    /\ Len(records[call.h]) = 2
    /\ records[call.h][1].severity = "critical"
    /\ records[call.h][2].severity = "High"
    /\ \A i \in 1..2 : records[call.h][i].incident_date = Naive(0)
    /\ ret = Returned(Rat(3, 5))

\* C27: for every entry that contributes to calculate_feedback_risk_score
\* the recency factor lies in [0.5, 1]: the weight added for the entry is at
\* most its severity weight and at least half of it, whatever incident_date
\* is stored.
C27_RecencyBounds ==
    Scoring =>
        \A i \in 1..Len(records[call.h]) :
            LET entry == records[call.h][i]
                weight == entry_weight(entry, RecentDays)
                severity == severity_weight(lower(entry.severity))
            IN  (Scored(entry, call.files) /\ weight.error = "") =>
                    /\ RLe(weight.value, severity)
                    /\ RLe(RMul(severity, Rat(1, 2)), weight.value)

(***************************************************************************)
(* ComplexityAnalyzer.analyze_changes.                                     *)
(***************************************************************************)
MaxFiles == 11      \* files of one kind in a change

Last(path) == path[Len(path)]

\* str.lower, fragment by fragment
lower_fragment(f) ==
    IF f = ".MD" THEN ".md"
    ELSE IF f = "Schema" THEN "schema"
    ELSE IF f = "NOTES" THEN "notes"
    ELSE IF f = "README" THEN "readme"
    ELSE IF f = "Dockerfile" THEN "dockerfile"
    ELSE f

\* Path(file).suffix.lower(): the final ".xyz" of the name, or ''
suffix_lower(path) ==
    IF path # <<>> /\ lower_fragment(Last(path)) \in {".py", ".md", ".sql", ".txt"}
    THEN lower_fragment(Last(path)) ELSE ""

\* the key _analyze_file_types counts the file under
file_type(path) ==
    IF suffix_lower(path) # "" THEN suffix_lower(path)
    ELSE IF path # <<>> /\ lower_fragment(Last(path)) = "dockerfile" THEN "dockerfile"
    ELSE "no_extension"

RECURSIVE analyze_file_types(_)
analyze_file_types(files) ==
    IF files = <<>> THEN <<>>
    ELSE LET file_types == analyze_file_types(SubSeq(files, 1, Len(files) - 1))
             ext == file_type(Last(files))
         IN  IF ext \in DOMAIN file_types
             THEN [file_types EXCEPT ![ext] = @ + 1]
             ELSE [e \in DOMAIN file_types \cup {ext} |->
                      IF e = ext THEN 1 ELSE file_types[e]]

\* some CRITICAL_PATTERNS regex finds its word in file.lower()
critical_match(path) ==
    \E i \in 1..Len(path) :
        lower_fragment(path[i]) \in
            {"config", "settings", "env", "deploy", "migration", "schema",
             "security", "auth", "database", "db/", "api"}

RECURSIVE identify_critical_files(_)
identify_critical_files(files) ==
    IF files = <<>> THEN <<>>
    ELSE IF critical_match(Head(files)) THEN <<Head(files)>> \o identify_critical_files(Tail(files))
    ELSE identify_critical_files(Tail(files))

\* FILE_TYPE_WEIGHTS.get(ext, 1.0)
file_type_weight(ext) ==
    IF ext = ".py" THEN Rat(10, 10)
    ELSE IF ext = ".sql" THEN Rat(15, 10)
    ELSE IF ext = "dockerfile" THEN Rat(15, 10)
    ELSE IF ext = ".md" THEN Rat(5, 10)
    ELSE IF ext = ".txt" THEN Rat(3, 10)
    ELSE Rat(10, 10)

RECURSIVE sum_counts(_, _)
sum_counts(file_types, exts) ==
    IF exts = {} THEN 0
    ELSE LET ext == CHOOSE e \in exts : TRUE
         IN  file_types[ext] + sum_counts(file_types, exts \ {ext})

\* type_score += (count / total_files) * weight, over file_types.items()
RECURSIVE type_sum(_, _, _)
type_sum(file_types, exts, total_files) ==
    IF exts = {} THEN Zero
    ELSE LET ext == CHOOSE e \in exts : TRUE
         IN  RAdd(RMul(Rat(file_types[ext], total_files), file_type_weight(ext)),
                  type_sum(file_types, exts \ {ext}, total_files))

volume_score_unclamped(files_changed, total_changes) ==
    RAdd(Rat(files_changed, 50), Rat(total_changes, 1000))

\* min(1.0, (files_changed / 50.0) + (total_changes / 1000.0))
volume_score(files_changed, total_changes) ==
    RMin(One, RAdd(Rat(files_changed, 50), Rat(total_changes, 1000)))

\* min(1.0, type_score / 1.5)
type_score(file_types) ==
    LET total_files == sum_counts(file_types, DOMAIN file_types)
    IN  RMin(One, RMul(type_sum(file_types, DOMAIN file_types, total_files), Rat(10, 15)))

\* min(1.0, critical_files / 10.0)
critical_score(critical_files) == RMin(One, Rat(critical_files, 10))

commit_score(total_changes, commits) ==
    IF commits > 0
    THEN LET changes_per_commit == Rat(total_changes, commits)
         IN  IF RLt(changes_per_commit, Rat(10, 1)) THEN Rat(3, 10)
             ELSE IF RLt(Rat(200, 1), changes_per_commit) THEN Rat(8, 10)
             ELSE Rat(5, 10)
    ELSE Zero

calculate_complexity_score(files_changed, total_changes, commits, file_types, critical_files) ==
    LET complexity ==
            RAdd(RAdd(RMul(volume_score(files_changed, total_changes), Rat(3, 10)),
                      RMul(type_score(file_types), Rat(2, 10))),
                 RAdd(RMul(critical_score(critical_files), Rat(3, 10)),
                      RMul(commit_score(total_changes, commits), Rat(2, 10))))
    IN  RMin(One, complexity)

get_risk_level_inclusive(score) ==
    IF RLe(score, Rat(3, 10)) THEN "low"
    ELSE IF RLe(score, Rat(6, 10)) THEN "medium"
    ELSE IF RLe(score, Rat(8, 10)) THEN "high"
    ELSE "critical"

get_risk_level(score) ==
    IF RLt(score, Rat(3, 10)) THEN "low"
    ELSE IF RLt(score, Rat(6, 10)) THEN "medium"
    ELSE IF RLt(score, Rat(8, 10)) THEN "high"
    ELSE "critical"

analyze_changes(files_changed, additions, deletions, commits) ==
    LET total_changes == additions + deletions
        result(file_types, critical_files, complexity_score) ==
            [files_changed |-> Len(files_changed), additions |-> additions,
             deletions |-> deletions, total_changes |-> total_changes, commits |-> commits,
             file_types |-> file_types, critical_files |-> critical_files,
             complexity_score |-> complexity_score,
             risk_level |-> get_risk_level(complexity_score)]
        scored(file_types, critical_files) ==
            result(file_types, critical_files,
                   calculate_complexity_score(Len(files_changed), total_changes, commits,
                                              file_types, Len(critical_files)))
    IN  scored(analyze_file_types(files_changed), identify_critical_files(files_changed))

\* the call analyze_changes(files_changed, additions, deletions, commits), being made
AnalyzeCall(files_changed, additions, deletions, commits) ==
    [op |-> "analyze_changes", returned |-> FALSE, files |-> files_changed,
     additions |-> additions, deletions |-> deletions, commits |-> commits]

AnalyzeChanges ==
    /\ call.op = "analyze_changes"
    /\ ~call.returned
    /\ call' = [call EXCEPT !.returned = TRUE]
    /\ ret' = Returned(analyze_changes(call.files, call.additions, call.deletions, call.commits))
    /\ UNCHANGED <<catVars, obsVars, engVars>>

\* the decimal numeral of n, as it appears in a file name
Numeral(n) ==
    <<"1", "2", "3", "4", "5", "6", "7", "8", "9", "10", "11", "12", "13", "14">>[n]

\* n distinct files each: migrations (critical, .sql) and notes (.MD)
SchemaFiles(n) == [i \in 1..n |-> <<"db/", "Schema", Numeral(i), ".sql">>]
NoteFiles(n) == [i \in 1..n |-> <<"docs/", "NOTES", Numeral(i), ".MD">>]

ChangedFiles ==
    {SchemaFiles(s) \o NoteFiles(n) \o api \o docker :
        s \in 0..MaxFiles, n \in 0..2,
        api \in {<<>>, <<p_api>>}, docker \in {<<>>, <<<<"docker/", "Dockerfile">>>>}}

LineCounts == {0, 5, 614, 1000, 3000}
CommitCounts == {0, 1, 3, 25}

InitComplexity ==
    /\ cls = [h \in Handles |-> "IssueCatalog"]
    /\ dom = {}
    /\ records = [h \in Handles |-> <<>>]
    /\ status = [h \in Handles |-> "none"]
    /\ file = [p \in StorePaths |-> NoFile]
    /\ InitObservers
    /\ config = DefaultConfig
    /\ \E files \in ChangedFiles, additions \in LineCounts, deletions \in {0, 400},
          commits \in CommitCounts :
           call = AnalyzeCall(files, additions, deletions, commits)
    /\ ret = <<>>

NextComplexity == AnalyzeChanges

SpecComplexity == InitComplexity /\ [][NextComplexity]_vars

Analyzing == call.op = "analyze_changes" /\ call.returned

\* C7: for every input, complexity_score lies in [0, 1] and risk_level is low
\* below 0.3, medium below 0.6, high below 0.8 and critical from 0.8 on.
C7_ScoreAndLevel ==
    Analyzing =>
        LET score == ret.value.complexity_score
            level == ret.value.risk_level
        IN  /\ ret.error = ""
            /\ RLe(Zero, score) /\ RLe(score, One)
            /\ level = "low" <=> RLt(score, Rat(3, 10))
            /\ level = "medium" <=> (RLe(Rat(3, 10), score) /\ RLt(score, Rat(6, 10)))
            /\ level = "high" <=> (RLe(Rat(6, 10), score) /\ RLt(score, Rat(8, 10)))
            /\ level = "critical" <=> RLe(Rat(8, 10), score)

\* a change large enough to be rated critical
C7_Witness ==
    /\ Analyzing
    /\ call.files # <<>>
    /\ ret.value.risk_level = "critical"
    /\ RLt(ret.value.complexity_score, One)

\* C8 as stated: an empty files_changed gives, for any additions, deletions
\* and commits, no error, complexity_score 0 and risk_level 'low'.
C8_EmptyIsZero ==
    (Analyzing /\ call.files = <<>>) =>
        /\ ret.error = ""
        /\ ret.value.complexity_score = Zero
        /\ ret.value.risk_level = "low"

\* C8 (amended): an empty files_changed gives no error, no file types and no
\* critical files; the score is 0.3 * min(1, total_changes / 1000) plus 0.2 *
\* the commit score (0 without commits, else 0.3 / 0.5 / 0.8), at most 0.46,
\* rated low or medium; it is 0 exactly when there are no commits and no
\* changed lines.
C8_EmptyFiles ==
    (Analyzing /\ call.files = <<>>) =>
        LET total == call.additions + call.deletions
            score == ret.value.complexity_score
            volume == IF total >= 1000 THEN One ELSE Rat(total, 1000)
            percommit ==
                IF call.commits = 0 THEN Zero
                ELSE IF total < 10 * call.commits THEN Rat(3, 10)
                ELSE IF total > 200 * call.commits THEN Rat(8, 10)
                ELSE Rat(5, 10)
        IN  /\ ret.error = ""
            /\ ret.value.file_types = <<>> /\ ret.value.critical_files = <<>>
            /\ score = RAdd(RMul(Rat(3, 10), volume), RMul(Rat(2, 10), percommit))
            /\ RLe(score, Rat(46, 100))
            /\ ret.value.risk_level \in {"low", "medium"}
            /\ score = Zero <=> (total = 0 /\ call.commits = 0)
            /\ (total = 0 /\ call.commits = 0) => ret.value.risk_level = "low"

\* no files, 1000 added lines in one commit: score 0.46, medium
C8_Witness ==
    /\ Analyzing
    /\ call.files = <<>> /\ call.additions = 1000 /\ call.deletions = 0 /\ call.commits = 1
    /\ ret.value.complexity_score = Rat(46, 100)
    /\ ret.value.risk_level = "medium"

(***************************************************************************)
(* RiskEngine: the contract pipeline.  The engine's catalog is handle h1,  *)
(* its feedback catalog is handle h2.                                      *)
(***************************************************************************)
\* severity_weights.get(severity, 0.4), severity lowered, None for no severity
issue_severity_weight(severity) ==
    LET sev == IF severity = NoneSeverity THEN NoneSeverity ELSE lower(severity) IN
    IF sev = "critical" THEN Rat(10, 10)
    ELSE IF sev = "high" THEN Rat(8, 10)
    ELSE IF sev = "medium" THEN Rat(5, 10)
    ELSE IF sev = "low" THEN Rat(3, 10)
    ELSE Rat(4, 10)

RECURSIVE issue_total_weight(_)
issue_total_weight(related_issues) ==
    IF related_issues = <<>> THEN Zero
    ELSE RAdd(issue_severity_weight(Head(related_issues).severity),
              issue_total_weight(Tail(related_issues)))

\* issue_score = min(1.0, total_weight / 10.0), 0.0 without related issues
issue_score(related_issues) ==
    IF related_issues = <<>> THEN Zero
    ELSE RMin(One, RMul(issue_total_weight(related_issues), Rat(1, 10)))

\* (issue_score * 0.4) + (feedback_score * 0.6); the feedback call may raise
\* the history score from the issues alone
calculate_history_score_issues_only(related_issues, files_changed, entries) ==
    Returned(RMul(issue_score(related_issues), Rat(4, 10)))

calculate_history_score(related_issues, files_changed, entries) ==
    LET combined(feedback_score) ==
            IF feedback_score.error # "" THEN feedback_score
            ELSE Returned(RAdd(RMul(issue_score(related_issues), Rat(4, 10)),
                               RMul(feedback_score.value, Rat(6, 10))))
    IN  combined(calculate_feedback_risk_score(entries, files_changed, RecentDays))

\* what the LLM call comes to: [failed], or a reply with an optional score
\* (<<>> or <<x>>), a confidence word ("" when the reply has none) and the
\* bullet lines of its recommendations section
LLMFailure == [failed |-> TRUE, score |-> <<>>, confidence |-> "", recommendations |-> <<>>]
LLMReply(score, confidence, recommendations) ==
    [failed |-> FALSE, score |-> score, confidence |-> confidence,
     recommendations |-> recommendations]

parse_risk_score_unclamped(reply) ==
    IF reply.score = <<>> THEN Rat(5, 10)
    ELSE reply.score[1]

\* _parse_llm_response: risk_score
parse_risk_score(reply) ==
    IF reply.score = <<>> THEN Rat(5, 10)
    ELSE RMax(Zero, RMin(One, reply.score[1]))

\* _parse_llm_response: confidence
parse_confidence(reply) ==
    IF reply.confidence = "low" THEN Rat(3, 10)
    ELSE IF reply.confidence = "medium" THEN Rat(6, 10)
    ELSE IF reply.confidence = "high" THEN Rat(9, 10)
    ELSE Rat(6, 10)

\* _parse_llm_response: recommendations
parse_recommendations(reply) ==
    IF reply.recommendations = <<>> THEN <<"Review changes carefully">>
    ELSE reply.recommendations

\* analyze_deployment_risk: risk_score, confidence and recommendations, with
\* the fallback of the except branch
\* the fallback with score and confidence exchanged
analyze_deployment_risk_swapped(reply) ==
    IF reply.failed
    THEN [risk_score |-> Zero, confidence |-> Rat(5, 10),
          recommendations |-> <<"Review changes manually">>]
    ELSE [risk_score |-> parse_risk_score(reply), confidence |-> parse_confidence(reply),
          recommendations |-> parse_recommendations(reply)]

analyze_deployment_risk(reply) ==
    IF reply.failed
    THEN [risk_score |-> Rat(5, 10), confidence |-> Zero,
          recommendations |-> <<"Review changes manually">>]
    ELSE [risk_score |-> parse_risk_score(reply), confidence |-> parse_confidence(reply),
          recommendations |-> parse_recommendations(reply)]

\* the three scores added up without their weights
overall_score_unweighted(cfg, complexity_score, history_score, llm_score) ==
    RAdd(RAdd(complexity_score, history_score), llm_score)

\* complexity * Wc + history * Wh + llm * Wa
overall_score(cfg, complexity_score, history_score, llm_score) ==
    RAdd(RAdd(RMul(complexity_score, cfg.complexity_weight),
              RMul(history_score, cfg.history_weight)),
         RMul(llm_score, cfg.llm_weight))

contract_risk_level_inclusive(overall) ==
    IF RLe(overall, Rat(33, 100)) THEN "LOW"
    ELSE IF RLe(overall, Rat(66, 100)) THEN "MEDIUM"
    ELSE "HIGH"

\* if overall_score < 0.33: LOW elif overall_score < 0.66: MEDIUM else: HIGH
contract_risk_level(overall) ==
    IF RLt(overall, Rat(33, 100)) THEN "LOW"
    ELSE IF RLt(overall, Rat(66, 100)) THEN "MEDIUM"
    ELSE "HIGH"

\* x cut to two decimals instead of rounded
round2_down(x) == {Rat((x[1] * 100) \div x[2], 100)}

\* round(x, 2) for x >= 0: the nearest multiple of 0.01; when x lies exactly
\* halfway the float behind x decides, so either neighbour is possible
round2(x) ==
    LET q == (x[1] * 100) \div x[2]
        r == (x[1] * 100) % x[2]
    IN  IF 2 * r < x[2] THEN {Rat(q, 100)}
        ELSE IF 2 * r > x[2] THEN {Rat(q + 1, 100)}
        ELSE {Rat(q, 100), Rat(q + 1, 100)}

\* RiskFactor, without its texts
RiskFactor(category, factor_name, impact_weight) ==
    [category |-> category, factor_name |-> factor_name, impact_weight |-> impact_weight]

\* _generate_risk_factors: the factor lists it can return (one per way the
\* weights can round)
generate_risk_factors(cfg, complexity_analysis, related_issues, related_feedback) ==
    {   <<RiskFactor("code", "Change Volume", code_weight)>>
     \o (IF complexity_analysis.critical_files # <<>>
         THEN <<RiskFactor("configuration", "Critical Files Modified", config_weight)>>
         ELSE <<>>)
     \o (IF related_feedback # <<>>
         THEN <<RiskFactor("operational", "Incident History (Feedback)", feedback_weight)>>
         ELSE <<>>)
     \o (IF related_issues # <<>>
         THEN <<RiskFactor("operational", "Historical Issues", history_weight)>>
         ELSE <<>>)
     \o (IF complexity_analysis.commits > 0
         THEN <<RiskFactor("ownership", "Change Distribution", ownership_weight)>>
         ELSE <<>>) :
        code_weight \in round2(RMul(cfg.complexity_weight, Rat(6, 10))),
        config_weight \in round2(RMul(cfg.complexity_weight, Rat(4, 10))),
        feedback_weight \in round2(RMul(cfg.history_weight, Rat(6, 10))),
        history_weight \in round2(RMul(cfg.history_weight, Rat(4, 10))),
        ownership_weight \in round2(RMul(cfg.llm_weight, Rat(3, 10)))}

\* list(dict.fromkeys(xs)): first occurrences, in order
RECURSIVE unique(_)
unique(xs) ==
    IF xs = <<>> THEN <<>>
    ELSE LET init == unique(SubSeq(xs, 1, Len(xs) - 1))
         IN  IF xs[Len(xs)] \in Range(init) THEN init ELSE Append(init, xs[Len(xs)])

\* xs[:n]
take(xs, n) == SubSeq(xs, 1, IF Len(xs) < n THEN Len(xs) ELSE n)

Canary == "Perform a canary deployment before full rollout"
Rollback == "Enable feature flag rollback hooks"
SmokeTests == "Run extended smoke tests on configuration initialization paths"
ValidationTests == "Ensure validation tests cover all modified configuration files"
ReviewHistory == "Review related historical issues to avoid known pitfalls"
Incremental == "Consider breaking this change into smaller, incremental deployments"

\* the rule-based recommendations, before de-duplication
\* the rule-based items with the incremental-deployment item for every change
rule_recommendations_always_incremental(risk_level, complexity_analysis, related_issues) ==
       (IF risk_level = "HIGH" THEN <<Canary, Rollback>> ELSE <<>>)
    \o (IF complexity_analysis.critical_files # <<>> THEN <<SmokeTests, ValidationTests>> ELSE <<>>)
    \o (IF related_issues # <<>> THEN <<ReviewHistory>> ELSE <<>>)
    \o <<Incremental>>

rule_recommendations(risk_level, complexity_analysis, related_issues) ==
       (IF risk_level = "HIGH" THEN <<Canary, Rollback>> ELSE <<>>)
    \o (IF complexity_analysis.critical_files # <<>> THEN <<SmokeTests, ValidationTests>> ELSE <<>>)
    \o (IF related_issues # <<>> THEN <<ReviewHistory>> ELSE <<>>)
    \o (IF complexity_analysis.total_changes > 500 THEN <<Incremental>> ELSE <<>>)

\* the recommendations without the cut to six
generate_recommendations_uncut(risk_level, complexity_analysis, llm_recommendations, related_issues) ==
    unique(take(llm_recommendations, 3)
           \o rule_recommendations(risk_level, complexity_analysis, related_issues))

\* _generate_recommendations
generate_recommendations(risk_level, complexity_analysis, llm_recommendations, related_issues) ==
    take(unique(take(llm_recommendations, 3)
                \o rule_recommendations(risk_level, complexity_analysis, related_issues)), 6)

\* RiskSummary of a contract
RiskSummary(risk_score, risk_level, confidence) ==
    [risk_score |-> risk_score, risk_level |-> risk_level, confidence |-> confidence]

\* _generate_risk_contract: the outcomes it can have, each the contract
\* together with the unrounded overall_score it was classified from
generate_risk_contract(cfg, issues, entries, files_changed, additions, deletions, commits, reply) ==
    LET contract(complexity_analysis, related_issues, history_score, llm_score,
                 llm_recommendations, confidence, overall, risk_level) ==
            {Returned([overall_score |-> overall,
                       history_score |-> history_score,
                       llm_score |-> llm_score,
                       contract |-> [risk_summary |-> RiskSummary(score, risk_level, conf),
                                     factors |-> factors,
                                     recommendations |->
                                         generate_recommendations(risk_level, complexity_analysis,
                                                                  llm_recommendations,
                                                                  related_issues)]]) :
                 score \in round2(overall), conf \in round2(confidence),
                 factors \in generate_risk_factors(
                                cfg, complexity_analysis, related_issues,
                                search_by_files(entries, files_changed, "FeedbackCatalog"))}
        tiered(complexity_analysis, related_issues, history_score, llm_score,
               llm_recommendations, confidence, overall) ==
            contract(complexity_analysis, related_issues, history_score, llm_score,
                     llm_recommendations, confidence, overall, contract_risk_level(overall))
        combined(complexity_analysis, related_issues, history_score, llm_score,
                 llm_recommendations, confidence) ==
            tiered(complexity_analysis, related_issues, history_score, llm_score,
                   llm_recommendations, confidence,
                   overall_score(cfg, complexity_analysis.complexity_score,
                                 history_score, llm_score))
        advised(complexity_analysis, related_issues, history_score, llm_analysis) ==
            combined(complexity_analysis, related_issues, history_score,
                     IF cfg.llm THEN llm_analysis.risk_score ELSE Rat(5, 10),
                     IF cfg.llm THEN llm_analysis.recommendations ELSE <<>>,
                     IF cfg.llm THEN llm_analysis.confidence ELSE Rat(85, 100))
        correlated(complexity_analysis, related_issues, history_score) ==
            IF history_score.error # "" THEN {history_score}
            ELSE advised(complexity_analysis, related_issues, history_score.value,
                         analyze_deployment_risk(reply))
        analysed(complexity_analysis, related_issues) ==
            correlated(complexity_analysis, related_issues,
                       calculate_history_score(related_issues, files_changed, entries))
    IN  analysed(analyze_changes(files_changed, additions, deletions, commits),
                 search_by_files(issues, files_changed, "IssueCatalog"))

\* the contract assess_commits_contract returns for an empty commit range
no_changes_contract ==
    Returned([overall_score |-> <<>>, history_score |-> <<>>, llm_score |-> <<>>,
              contract |-> [risk_summary |-> RiskSummary(Zero, "LOW", One),
                            factors |-> <<>>,
                            recommendations |-> <<"No changes to deploy.">>]])

\* a pull request as get_pull_requests and get_pr_files report it
PullRequest(files, additions, deletions, commits) ==
    [files |-> files, additions |-> additions, deletions |-> deletions, commits |-> commits]

\* a commit as get_commits_between_refs reports it
Commit(files_changed, additions, deletions) ==
    [files_changed |-> files_changed, additions |-> additions, deletions |-> deletions]

\* a pull-request assessment being requested: pr is <<>> when GitHub has no
\* pull request of that number, else <<the pull request>>; reply is what the
\* LLM would answer; trace lists the collaborators the call has used;
\* deployment_region is the region argument (its default "unknown") and
\* unavailable the features the regional configuration lacks in that region
PullRequestCall(op, pr, reply) ==
    [op |-> op, returned |-> FALSE, trace |-> <<>>, pr |-> pr, reply |-> reply,
     deployment_region |-> "unknown", unavailable |-> {}]

\* a commit-range assessment being requested: range is what GitHub holds
\* between the refs; compare_error is <<>>, or <<k>> when the comparison
\* raises after k commits have been read
RangeCall(op, range, compare_error, reply) ==
    [op |-> op, returned |-> FALSE, trace |-> <<>>, range |-> range,
     compare_error |-> compare_error, reply |-> reply,
     deployment_region |-> "unknown", unavailable |-> {}]

\* GitHubClient.get_commits_between_refs: the exception is printed and the
\* commits read so far are returned
get_commits_between_refs(range, compare_error) ==
    IF compare_error = <<>> THEN range ELSE SubSeq(range, 1, compare_error[1])

\* all_files.update(...), total_additions += ..., total_deletions += ...
RECURSIVE all_files(_)
all_files(commits) ==
    IF commits = <<>> THEN {}
    ELSE Range(Head(commits).files_changed) \cup all_files(Tail(commits))

RECURSIVE total_additions(_)
total_additions(commits) ==
    IF commits = <<>> THEN 0 ELSE Head(commits).additions + total_additions(Tail(commits))

RECURSIVE total_deletions(_)
total_deletions(commits) ==
    IF commits = <<>> THEN 0 ELSE Head(commits).deletions + total_deletions(Tail(commits))

\* list(a_set): the elements in some order
Orderings(S) ==
    {f \in [1..Cardinality(S) -> S] : \A i, j \in 1..Cardinality(S) : f[i] = f[j] => i = j}

\* the changes a list of commits aggregates to
AggregatedChanges(commits) ==
    {PullRequest(files, total_additions(commits), total_deletions(commits), Len(commits)) :
        files \in Orderings(all_files(commits))}

Generated(change) ==
    generate_risk_contract(config, records["h1"], records["h2"], change.files,
                           change.additions, change.deletions, change.commits, call.reply)

\* the collaborators a pipeline run uses, given how it ended
pipeline_trace(outcome) ==
    <<"analyze_changes", "catalog.search_by_files", "calculate_feedback_risk_score">>
    \o (IF outcome.error # "" THEN <<>>
        ELSE (IF config.llm THEN <<"analyze_deployment_risk">> ELSE <<>>)
             \o <<"feedback.search_by_files">>)

AssessPullRequestContract ==
    /\ call.op = "assess_pull_request_contract"
    /\ ~call.returned
    /\ IF ~config.github
       THEN /\ ret' = Raised("ValueError")
            /\ call' = [call EXCEPT !.returned = TRUE]
       ELSE IF call.pr = <<>>
       THEN /\ ret' = Raised("ValueError")
            /\ call' = [call EXCEPT !.returned = TRUE, !.trace = <<"get_pull_requests">>]
       ELSE /\ ret' \in Generated(call.pr[1])
            /\ call' = [call EXCEPT !.returned = TRUE,
                                    !.trace = <<"get_pull_requests", "get_pr_files">>
                                              \o pipeline_trace(ret')]
    /\ UNCHANGED <<catVars, obsVars, engVars>>

\* the commit-range contract without the branch for an empty range
AssessCommitsContract_always_generating ==
    /\ call.op = "assess_commits_contract"
    /\ ~call.returned
    /\ IF ~config.github
       THEN /\ ret' = Raised("ValueError")
            /\ call' = [call EXCEPT !.returned = TRUE]
       ELSE LET commits == get_commits_between_refs(call.range, call.compare_error) IN
            /\ ret' \in UNION {Generated(change) : change \in AggregatedChanges(commits)}
            /\ call' = [call EXCEPT !.returned = TRUE,
                                    !.trace = <<"get_commits_between_refs">>
                                              \o pipeline_trace(ret')]
    /\ UNCHANGED <<catVars, obsVars, engVars>>

AssessCommitsContract ==
    /\ call.op = "assess_commits_contract"
    /\ ~call.returned
    /\ IF ~config.github
       THEN /\ ret' = Raised("ValueError")
            /\ call' = [call EXCEPT !.returned = TRUE]
       ELSE LET commits == get_commits_between_refs(call.range, call.compare_error) IN
            IF commits = <<>>
            THEN /\ ret' = no_changes_contract
                 /\ call' = [call EXCEPT !.returned = TRUE,
                                         !.trace = <<"get_commits_between_refs">>]
            ELSE /\ ret' \in UNION {Generated(change) : change \in AggregatedChanges(commits)}
                 /\ call' = [call EXCEPT !.returned = TRUE,
                                         !.trace = <<"get_commits_between_refs">>
                                                   \o pipeline_trace(ret')]
    /\ UNCHANGED <<catVars, obsVars, engVars>>

\* thresholds and weights other than the defaults: the LLM score alone counts
LLMOnlyConfig ==
    [low_threshold |-> Rat(5, 10), medium_threshold |-> Rat(7, 10), high_threshold |-> Rat(9, 10),
     complexity_weight |-> Zero, history_weight |-> Zero, llm_weight |-> One,
     llm |-> TRUE, github |-> TRUE, jira |-> TRUE, regional |-> FALSE,
     catalog_path |-> "catalog.json"]

\* weights that do not sum to 1
UnitWeightsConfig ==
    [DefaultConfig EXCEPT !.complexity_weight = One, !.history_weight = One,
                          !.llm_weight = One, !.llm = TRUE]

Configs == {DefaultConfig, [DefaultConfig EXCEPT !.llm = TRUE], LLMOnlyConfig, UnitWeightsConfig}

EngineIssues ==
    {<<>>,
     <<Issue("github", "1", 1, "High", <<p_api>>)>>,
     <<Issue("jira", "2", 1, NoneSeverity, <<p_src>>), Issue("github", "1", 1, "critical", <<p_api>>)>>}

EngineFeedback ==
    {<<>>,
     <<Entry("feedback-1", 1, "critical", Naive(0), <<p_api>>)>>,
     <<Entry("feedback-1", 1, "High", Aware(0), <<p_api>>)>>}

LLMScores ==
    {Zero, Rat(329999, 1000000), Rat(33, 100), Rat(659999, 1000000), Rat(66, 100), Rat(3, 2)}

\* recommendation sections: none, one item, five with a repeat, one that
\* words a rule-based item
LLMRecommendations ==
    {<<>>, <<"Add a runbook">>,
     <<"Add a runbook", "Add a runbook", "Notify on-call", "Freeze deploys", "Add alerts">>,
     <<"Add a runbook", "Notify on-call", "Freeze deploys">>,
     <<ReviewHistory, "Add a runbook">>}

LLMReplies ==
    {LLMFailure}
    \cup {LLMReply(score, "", <<>>) : score \in {<<>>} \cup {<<x>> : x \in LLMScores}}
    \cup {LLMReply(<<>>, conf, <<>>) : conf \in {"low", "medium", "high"}}
    \cup {LLMReply(score, "high", recs) :
              score \in {<<Zero>>, <<One>>}, recs \in LLMRecommendations \ {<<>>}}

\* a range of n commits changing the files by the added lines in all: the
\* first commit adds the lines, every commit touches the files
CommitRange(files, additions, n) ==
    [i \in 1..n |-> Commit(files, IF i = 1 THEN additions ELSE 0, 0)]

InitContract ==
    /\ cls = [h \in Handles |-> IF h = "h1" THEN "IssueCatalog" ELSE "FeedbackCatalog"]
    /\ dom = {}
    /\ \E issues \in EngineIssues, entries \in EngineFeedback :
           records = [h \in Handles |-> IF h = "h1" THEN issues ELSE entries]
    /\ status = [h \in Handles |-> "ready"]
    /\ file = [p \in StorePaths |-> NoFile]
    /\ InitObservers
    /\ config \in Configs
    /\ \E files \in {<<>>, <<p_readme>>, <<p_api, p_readme>>},
          additions \in {0, 614, 3000}, commits \in {0, 1, 3},
          reply \in LLMReplies :
           /\ ~config.llm => reply = LLMFailure
           /\ \/ call = PullRequestCall("assess_pull_request_contract",
                                       <<PullRequest(files, additions, 0, commits)>>, reply)
              \/ call = RangeCall("assess_commits_contract",
                                 CommitRange(files, additions, commits), <<>>, reply)
    /\ ret = <<>>

NextContract == AssessPullRequestContract \/ AssessCommitsContract

SpecContract == InitContract /\ [][NextContract]_vars

\* a contract call has returned a contract
Contracted ==
    /\ call.op \in {"assess_pull_request_contract", "assess_commits_contract"}
    /\ call.returned
    /\ ret.error = ""

\* C9: in every generated contract the reported tier agrees with the reported
\* score: LOW iff risk_score < 0.33, MEDIUM iff 0.33 <= risk_score < 0.66,
\* HIGH iff risk_score >= 0.66.
C9_TierMatchesScore ==
    Contracted =>
        LET summary == ret.value.contract.risk_summary IN
        /\ summary.risk_level = "LOW" <=> RLt(summary.risk_score, Rat(33, 100))
        /\ summary.risk_level = "MEDIUM" <=>
               (RLe(Rat(33, 100), summary.risk_score) /\ RLt(summary.risk_score, Rat(66, 100)))
        /\ summary.risk_level = "HIGH" <=> RLe(Rat(66, 100), summary.risk_score)

WeightsSumToOne ==
    RAdd(RAdd(config.complexity_weight, config.history_weight), config.llm_weight) = One

InUnit(x) == RLe(Zero, x) /\ RLe(x, One)

\* C11: under weights with Wc + Wh + Wa = 1 every generated contract has
\* risk_score and confidence in [0, 1], risk_level among LOW, MEDIUM, HIGH,
\* and every factor's impact_weight in [0, 1].
C11_ContractRanges ==
    (Contracted /\ WeightsSumToOne) =>
        LET contract == ret.value.contract IN
        /\ InUnit(contract.risk_summary.risk_score)
        /\ InUnit(contract.risk_summary.confidence)
        /\ contract.risk_summary.risk_level \in {"LOW", "MEDIUM", "HIGH"}
        /\ \A i \in 1..Len(contract.factors) : InUnit(contract.factors[i].impact_weight)

\* an LLM score of 1.5 is clamped: the contract reports 1.0, with factors
C11_Witness ==
    /\ Contracted
    /\ WeightsSumToOne
    /\ call.reply.score = <<Rat(3, 2)>>
    /\ ret.value.contract.risk_summary.risk_score = One
    /\ Len(ret.value.contract.factors) >= 2

(***************************************************************************)
(* The engine's entry points: catalog sync and the flat assessments.       *)
(***************************************************************************)
assess_risk_level_inclusive(cfg, overall) ==
    IF RLe(overall, cfg.low_threshold) THEN "low"
    ELSE IF RLe(overall, cfg.medium_threshold) THEN "medium"
    ELSE IF RLe(overall, cfg.high_threshold) THEN "high"
    ELSE "critical"

\* the level _assess_changes reports for an overall score
assess_risk_level(cfg, overall) ==
    IF RLt(overall, cfg.low_threshold) THEN "low"
    ELSE IF RLt(overall, cfg.medium_threshold) THEN "medium"
    ELSE IF RLt(overall, cfg.high_threshold) THEN "high"
    ELSE "critical"

\* RiskEngine._assess_changes
assess_changes(cfg, issues, entries, files_changed, additions, deletions, commits, reply) ==
    LET assessment(complexity_analysis, related_issues, history_score, llm_analysis, overall) ==
            Returned([complexity_analysis |-> complexity_analysis,
                      related_issues_count |-> Len(related_issues),
                      related_feedback_count |->
                          Len(search_by_files(entries, files_changed, "FeedbackCatalog")),
                      history_risk_score |-> history_score,
                      llm_analysis |-> IF cfg.llm THEN <<llm_analysis>> ELSE <<>>,
                      overall_risk_score |-> overall,
                      risk_level |-> assess_risk_level(cfg, overall)])
        advised(complexity_analysis, related_issues, history_score, llm_analysis) ==
            assessment(complexity_analysis, related_issues, history_score, llm_analysis,
                       overall_score(cfg, complexity_analysis.complexity_score, history_score,
                                     IF cfg.llm THEN llm_analysis.risk_score ELSE Rat(5, 10)))
        correlated(complexity_analysis, related_issues, history_score) ==
            IF history_score.error # "" THEN history_score
            ELSE advised(complexity_analysis, related_issues, history_score.value,
                         analyze_deployment_risk(reply))
        analysed(complexity_analysis, related_issues) ==
            correlated(complexity_analysis, related_issues,
                       calculate_history_score(related_issues, files_changed, entries))
    IN  analysed(analyze_changes(files_changed, additions, deletions, commits),
                 search_by_files(issues, files_changed, "IssueCatalog"))

\* what assess_commits returns for an empty commit range
no_commits_assessment ==
    Returned([error |-> "No commits found", overall_risk_score |-> Zero, risk_level |-> "low"])

Assessed(change) ==
    assess_changes(config, records["h1"], records["h2"], change.files,
                   change.additions, change.deletions, change.commits, call.reply)

AssessPullRequest ==
    /\ call.op = "assess_pull_request"
    /\ ~call.returned
    /\ IF ~config.github
       THEN /\ ret' = Raised("ValueError")
            /\ call' = [call EXCEPT !.returned = TRUE]
       ELSE IF call.pr = <<>>
       THEN /\ ret' = Raised("ValueError")
            /\ call' = [call EXCEPT !.returned = TRUE, !.trace = <<"get_pull_requests">>]
       ELSE /\ ret' = Assessed(call.pr[1])
            /\ call' = [call EXCEPT !.returned = TRUE,
                                    !.trace = <<"get_pull_requests", "get_pr_files">>
                                              \o pipeline_trace(ret')]
    /\ UNCHANGED <<catVars, obsVars, engVars>>

AssessCommits ==
    /\ call.op = "assess_commits"
    /\ ~call.returned
    /\ IF ~config.github
       THEN /\ ret' = Raised("ValueError")
            /\ call' = [call EXCEPT !.returned = TRUE]
       ELSE LET commits == get_commits_between_refs(call.range, call.compare_error) IN
            IF commits = <<>>
            THEN /\ ret' = no_commits_assessment
                 /\ call' = [call EXCEPT !.returned = TRUE,
                                         !.trace = <<"get_commits_between_refs">>]
            ELSE /\ ret' \in {Assessed(change) : change \in AggregatedChanges(commits)}
                 /\ call' = [call EXCEPT !.returned = TRUE,
                                         !.trace = <<"get_commits_between_refs">>
                                                   \o pipeline_trace(ret')]
    /\ UNCHANGED <<catVars, obsVars, engVars>>

\* str.lower of a label
label_lower(label) ==
    IF label = "P0" THEN "p0"
    ELSE IF label = "Priority: High" THEN "priority: high"
    ELSE label

\* severity_keywords
severity_keywords(label) ==
    IF label \in {"critical", "p0", "priority: critical"} THEN "critical"
    ELSE IF label \in {"high", "p1", "priority: high"} THEN "high"
    ELSE IF label \in {"medium", "p2", "priority: medium"} THEN "medium"
    ELSE IF label \in {"low", "p3", "priority: low"} THEN "low"
    ELSE NoneSeverity

\* RiskEngine._extract_severity_from_labels
RECURSIVE extract_severity_from_labels(_)
extract_severity_from_labels(labels) ==
    IF labels = <<>> THEN NoneSeverity
    ELSE IF severity_keywords(label_lower(Head(labels))) # NoneSeverity
    THEN severity_keywords(label_lower(Head(labels)))
    ELSE extract_severity_from_labels(Tail(labels))

\* an issue as GitHubClient.get_issues reports it
GitHubIssue(number, title, labels) == [number |-> number, title |-> title, labels |-> labels]

\* an issue as JiraClient.get_issues reports it
JiraIssue(key, summary, priority) == [key |-> key, summary |-> summary, priority |-> priority]

\* the sync loops, had they filed every issue under src/api.py
cataloged_with_files(source, issue) ==
    IF source = "github"
    THEN Issue("github", issue.number, issue.title,
               extract_severity_from_labels(issue.labels), <<p_api>>)
    ELSE Issue("jira", issue.key, issue.summary, issue.priority, <<p_api>>)

\* the CatalogedIssue the sync loops build
cataloged(source, issue) ==
    IF source = "github"
    THEN Issue("github", issue.number, issue.title,
               extract_severity_from_labels(issue.labels), <<>>)
    ELSE Issue("jira", issue.key, issue.summary, issue.priority, <<>>)

\* a sync being requested: issues is what the tracker holds; fetch_error
\* tells whether get_issues raises
SyncCall(op, issues, fetch_error) ==
    [op |-> op, returned |-> FALSE, trace |-> <<>>, issues |-> issues,
     fetch_error |-> fetch_error]

RECURSIVE latest_after_all(_, _)
latest_after_all(seen, batch) ==
    IF batch = <<>> THEN seen
    ELSE latest_after_all({o \in seen : KeyOf(o, "IssueCatalog") # KeyOf(Head(batch), "IssueCatalog")}
                              \cup {Head(batch)},
                          Tail(batch))

\* the sync without the check of the client
SyncIssues_unchecked(source, configured) ==
    LET batch == [i \in 1..Len(call.issues) |-> cataloged(source, call.issues[i])]
        issues == add_issues(records["h1"], batch)
    IN  /\ records' = [records EXCEPT !["h1"] = issues]
        /\ file' = [file EXCEPT ![config.catalog_path] = save_file(@, issues, "IssueCatalog")]
        /\ latest' = [latest EXCEPT !["h1"] = latest_after_all(@, batch)]
        /\ sched' = "off" /\ sx' = <<>> /\ readd' = <<"off">>
        /\ ret' = Returned(Len(call.issues))
        /\ call' = [call EXCEPT !.returned = TRUE, !.trace = <<"get_issues">>]
        /\ UNCHANGED <<cls, status, dom, engVars>>

\* sync_github_issues / sync_jira_issues: the catalog is object h1
SyncIssues(source, configured) ==
    IF ~configured
    THEN /\ ret' = Raised("ValueError")
         /\ call' = [call EXCEPT !.returned = TRUE]
         /\ UNCHANGED <<catVars, obsVars, engVars>>
    ELSE IF call.fetch_error
    THEN /\ ret' = Raised("UpstreamError")
         /\ call' = [call EXCEPT !.returned = TRUE, !.trace = <<"get_issues">>]
         /\ UNCHANGED <<catVars, obsVars, engVars>>
    ELSE LET batch == [i \in 1..Len(call.issues) |-> cataloged(source, call.issues[i])]
             issues == add_issues(records["h1"], batch)
         IN  /\ records' = [records EXCEPT !["h1"] = issues]
             /\ file' = [file EXCEPT ![config.catalog_path] = save_file(@, issues, "IssueCatalog")]
             /\ latest' = [latest EXCEPT !["h1"] = latest_after_all(@, batch)]
             /\ sched' = "off" /\ sx' = <<>> /\ readd' = <<"off">>
             /\ ret' = Returned(Len(call.issues))
             /\ call' = [call EXCEPT !.returned = TRUE, !.trace = <<"get_issues">>]
             /\ UNCHANGED <<cls, status, dom, engVars>>

SyncGithubIssues ==
    /\ call.op = "sync_github_issues"
    /\ ~call.returned
    /\ SyncIssues("github", config.github)

SyncJiraIssues ==
    /\ call.op = "sync_jira_issues"
    /\ ~call.returned
    /\ SyncIssues("jira", config.jira)

\* configurations with and without each client
EngineConfigs ==
    {[DefaultConfig EXCEPT !.github = g, !.jira = j, !.llm = l, !.regional = r] :
        g \in BOOLEAN, j \in BOOLEAN, l \in BOOLEAN, r \in BOOLEAN}

\* the collaborators RiskEngine.__init__ leaves the engine holding
engine_clients(cfg) ==
    [llm_analyzer |-> cfg.llm, github_client |-> cfg.github, jira_client |-> cfg.jira,
     regional_validator |-> FALSE]

\* a call with a target region in which the regional configuration lacks a feature
InRegion(c) == [c EXCEPT !.deployment_region = "us-gov-west-1", !.unavailable = {"lambda"}]

TrackerIssues(source) ==
    IF source = "github"
    THEN {<<>>,
          <<GitHubIssue("1", 2, <<"bug", "P0">>)>>,
          <<GitHubIssue("7", 1, <<>>), GitHubIssue("7", 2, <<"Priority: High", "low">>)>>}
    ELSE {<<>>,
          <<JiraIssue("2", 2, "High")>>,
          <<JiraIssue("1", 1, NoneSeverity), JiraIssue("2", 1, "Low")>>}

CommitRanges ==
    {<<>>,
     <<Commit(<<p_api>>, 614, 10)>>,
     <<Commit(<<p_api, p_readme>>, 300, 0), Commit(<<p_api>>, 314, 10)>>}

CompareErrors(range) == {<<>>} \cup {<<k>> : k \in 0..(Len(range) - 1)} \cup {<<0>>}

PullRequests ==
    {<<>>, <<PullRequest(<<p_api>>, 614, 10, 1)>>, <<PullRequest(<<>>, 0, 0, 0)>>}

EngineReplies ==
    {LLMFailure, LLMReply(<<One>>, "high", <<"Add a runbook">>), LLMReply(<<Rat(3, 2)>>, "", <<>>)}

EngineCalls ==
    {InRegion(PullRequestCall("assess_pull_request_contract", pr, LLMFailure)) :
        pr \in PullRequests}
    \cup {InRegion(RangeCall("assess_commits_contract", range, <<>>, LLMFailure)) :
        range \in CommitRanges}
    \cup {SyncCall("sync_github_issues", issues, e) :
        issues \in TrackerIssues("github"), e \in BOOLEAN}
    \cup {SyncCall("sync_jira_issues", issues, e) :
        issues \in TrackerIssues("jira"), e \in BOOLEAN}
    \cup {PullRequestCall(op, pr, reply) :
        op \in {"assess_pull_request", "assess_pull_request_contract"},
        pr \in PullRequests, reply \in EngineReplies}
    \cup UNION {{RangeCall(op, range, e, reply) : e \in CompareErrors(range)} :
        op \in {"assess_commits", "assess_commits_contract"},
        range \in CommitRanges, reply \in EngineReplies}

\* an engine just constructed over its two stores, and a call being made
InitEngine ==
    /\ cls = [h \in Handles |-> IF h = "h1" THEN "IssueCatalog" ELSE "FeedbackCatalog"]
    /\ dom = {}
    /\ \E issues \in EngineIssues, entries \in EngineFeedback :
           /\ records = [h \in Handles |-> IF h = "h1" THEN issues ELSE entries]
           /\ file = [p \in StorePaths |->
                        IF p = "catalog.json"
                        THEN (IF issues = <<>> THEN NoFile
                              ELSE save_file(NoFile, issues, "IssueCatalog"))
                        ELSE IF p = "feedback.json"
                        THEN (IF entries = <<>> THEN NoFile
                              ELSE save_file(NoFile, entries, "FeedbackCatalog"))
                        ELSE NoFile]
    /\ status = [h \in Handles |-> "ready"]
    /\ InitObservers
    /\ config \in EngineConfigs
    /\ call \in EngineCalls
    /\ (~config.llm /\ "reply" \in DOMAIN call) => call.reply = LLMFailure
    /\ ret = <<>>

NextEngine ==
    \/ SyncGithubIssues
    \/ SyncJiraIssues
    \/ AssessPullRequest
    \/ AssessCommits
    \/ AssessPullRequestContract
    \/ AssessCommitsContract

SpecEngine == InitEngine /\ [][NextEngine]_vars

\* the comparison of the refs failed during a commit-range assessment
CompareFailed ==
    /\ call.op \in {"assess_commits", "assess_commits_contract"}
    /\ call.returned
    /\ config.github
    /\ call.compare_error # <<>>

\* C12: when the source-control call fetching the commits of a range fails
\* during assess_commits or assess_commits_contract, the failure is reported
\* as an error: the call raises and returns no assessment and no contract.
C12_CompareFailureReported == CompareFailed => ret.error # ""

C12_SilentLowRisk ==
    /\ CompareFailed
    /\ call.op = "assess_commits_contract"
    /\ ret = no_changes_contract

\* an assessment call has returned after calling the LLM analyzer
AdvisoryCalled ==
    /\ call.op \in {"assess_pull_request", "assess_commits",
                    "assess_pull_request_contract", "assess_commits_contract"}
    /\ call.returned
    /\ \E i \in 1..Len(call.trace) : call.trace[i] = "analyze_deployment_risk"

ContractOps == {"assess_pull_request_contract", "assess_commits_contract"}

\* the LLM score a returned assessment was computed from
AdvisoryScore ==
    IF call.op \in ContractOps THEN ret.value.llm_score
    ELSE ret.value.llm_analysis[1].risk_score

\* C13: when an LLM analyzer is configured and its call fails, the
\* assessment still completes without an exception, the LLM score used is
\* 0.5 and a contract reports confidence 0.0; when the call succeeds the LLM
\* score lies in [0, 1].
C13_AdvisoryFallback ==
    AdvisoryCalled =>
        /\ ret.error = ""
        /\ call.reply.failed =>
              /\ AdvisoryScore = Rat(5, 10)
              /\ call.op \in ContractOps => ret.value.contract.risk_summary.confidence = Zero
        /\ ~call.reply.failed => InUnit(AdvisoryScore)

C13_Witness ==
    /\ AdvisoryCalled
    /\ call.reply.failed
    /\ call.op = "assess_commits_contract"
    /\ ret.value.contract.risk_summary.confidence = Zero
    /\ ret.value.llm_score = Rat(5, 10)

\* whether the client the operation needs was constructed
ClientConfigured(op) == IF op = "sync_jira_issues" THEN config.jira ELSE config.github

\* C14: each of sync_github_issues, sync_jira_issues, assess_pull_request,
\* assess_commits, assess_pull_request_contract and assess_commits_contract,
\* called without its client configured, fails at once with ValueError,
\* makes no upstream call (and so no retry), and leaves the in-memory
\* catalogs and the stores as they were.
C14_NotConfigured ==
    [][(~call.returned /\ call'.returned /\ ~ClientConfigured(call.op)) =>
          /\ ret'.error = "ValueError"
          /\ call'.trace = <<>>
          /\ UNCHANGED <<records, file>>]_vars

C14_Witness ==
    /\ call.op = "sync_jira_issues"
    /\ call.returned
    /\ ~config.jira /\ config.github
    /\ call.issues # <<>>
    /\ ~call.fetch_error
    /\ ret.error = "ValueError"
    /\ records["h1"] # <<>>

\* a commit-range assessment has returned for a range without commits
EmptyRangeAssessed ==
    /\ call.op \in {"assess_commits", "assess_commits_contract"}
    /\ call.returned
    /\ config.github
    /\ call.range = <<>>
    /\ call.compare_error = <<>>

\* C15: for a range without commits assess_commits_contract returns a
\* contract with risk_level LOW, risk_score 0.0 and no factors, and
\* assess_commits returns overall_risk_score 0.0 with risk_level 'low'; in
\* both the commits are fetched and nothing else is called: not the
\* complexity analyzer, not the catalog searches, not the LLM analyzer.
C15_EmptyRange ==
    EmptyRangeAssessed =>
        /\ ret.error = ""
        /\ call.trace = <<"get_commits_between_refs">>
        /\ call.op = "assess_commits_contract" =>
              /\ ret.value.contract.risk_summary.risk_level = "LOW"
              /\ ret.value.contract.risk_summary.risk_score = Zero
              /\ ret.value.contract.factors = <<>>
        /\ call.op = "assess_commits" =>
              /\ ret.value.overall_risk_score = Zero
              /\ ret.value.risk_level = "low"

C15_Witness ==
    /\ EmptyRangeAssessed
    /\ call.op = "assess_commits_contract"
    /\ config.llm
    /\ records["h1"] # <<>> /\ records["h2"] # <<>>
    /\ ret.value.contract.risk_summary.risk_level = "LOW"
    /\ ret.value.contract.factors = <<>>

\* a contract call has returned a contract made by _generate_risk_contract
GeneratedContract ==
    /\ Contracted
    /\ \E i \in 1..Len(call.trace) : call.trace[i] = "analyze_changes"

\* the files of the change the call assessed, in some order
ChangedFilesOf ==
    IF call.op = "assess_pull_request_contract" THEN call.pr[1].files
    ELSE CHOOSE files \in Orderings(all_files(get_commits_between_refs(call.range,
                                                                       call.compare_error))) : TRUE

factor_names(factors) == [i \in 1..Len(factors) |-> factors[i].factor_name]

\* C16: the factors of a generated contract are, in this order: 'Change
\* Volume'; 'Critical Files Modified' iff a critical file is touched;
\* 'Incident History (Feedback)' iff a feedback entry matches the files;
\* 'Historical Issues' iff a cataloged issue matches the files; 'Change
\* Distribution', present for every commit count >= 0.
C16_FactorOrder ==
    GeneratedContract =>
        factor_names(ret.value.contract.factors) =
            <<"Change Volume">>
            \o (IF identify_critical_files(ChangedFilesOf) # <<>>
                THEN <<"Critical Files Modified">> ELSE <<>>)
            \o (IF search_by_files(records["h2"], ChangedFilesOf, "FeedbackCatalog") # <<>>
                THEN <<"Incident History (Feedback)">> ELSE <<>>)
            \o (IF search_by_files(records["h1"], ChangedFilesOf, "IssueCatalog") # <<>>
                THEN <<"Historical Issues">> ELSE <<>>)
            \o <<"Change Distribution">>

\* the contract of a pull request without commits has no 'Change Distribution'
C16_NoDistribution ==
    /\ GeneratedContract
    /\ call.op = "assess_pull_request_contract"
    /\ call.pr[1].commits = 0
    /\ factor_names(ret.value.contract.factors) = <<"Change Volume">>

HasRegionalFactor ==
    \E i \in 1..Len(ret.value.contract.factors) :
        /\ ret.value.contract.factors[i].factor_name = "Regional Feature Availability"
        /\ ret.value.contract.factors[i].impact_weight = Rat(15, 100)

\* C17: a generated contract has a 'Regional Feature Availability' factor of
\* impact_weight 0.15 when a region is given and the regional validator
\* reports a feature unavailable there, and no such factor without a
\* regional configuration; the engine holds a regional validator exactly
\* when a regional configuration is supplied.
C17_RegionalFactor ==
    /\ engine_clients(config).regional_validator <=> config.regional
    /\ GeneratedContract =>
          /\ (config.regional /\ call.deployment_region # "unknown" /\ call.unavailable # {})
                => HasRegionalFactor
          /\ ~config.regional => ~HasRegionalFactor

\* a contract for a region lacking a feature, made by an engine given a
\* regional configuration, without the regional factor
C17_NoRegionalFactor ==
    /\ GeneratedContract
    /\ config.regional
    /\ call.deployment_region = "us-gov-west-1"
    /\ call.unavailable = {"lambda"}
    /\ ~HasRegionalFactor

(***************************************************************************)
(* The contract as an object: RiskContract.to_dict and from_dict.          *)
(***************************************************************************)
\* an instance of a dataclass: its class and its fields by name
Object(class, fields) == [class |-> class, fields |-> fields]

\* _generate_historical_context: the contexts it can return. created_at is
\* not part of the issue records here, so any of the critical or high issues
\* may be the latest one, and its date may or may not parse
generate_historical_context(related_issues) ==
    LET recent_incidents ==
            SelectSeq(related_issues,
                      LAMBDA issue : /\ issue.severity # NoneSeverity
                                     /\ lower(issue.severity) \in {"critical", "high"})
        context(cause, days) ==
            Object("HistoricalContext",
                   [previous_similar_changes |-> Len(related_issues),
                    previous_incidents_in_region |-> Len(recent_incidents),
                    last_incident_cause |-> cause,
                    time_since_last_outage_days |-> days])
    IN  IF recent_incidents = <<>> THEN {context(<<>>, <<>>)}
        ELSE {context(<<recent_incidents[i].title>>, days) :
                i \in 1..Len(recent_incidents), days \in {<<>>, <<0>>, <<3>>}}

\* ModelDetails(...) of a generated contract
ModelDetails(issues) ==
    Object("ModelDetails",
           [model_version |-> "2.0.0", model_type |-> "hybrid_rule_ml",
            trained_on_releases |-> IF issues # <<>> THEN <<Len(issues)>> ELSE <<>>,
            last_updated |-> <<"today">>])

\* RiskContract(...): the contract object around the summary, factors and
\* recommendations computed for it (the generated texts stand as one token)
RiskContract(computed, deployment_region, historical_context, model_details, text) ==
    Object("RiskContract",
           [id |-> "changeset-1", timestamp |-> "now", repository |-> "owner/repo",
            branch |-> "main", deployment_region |-> deployment_region,
            risk_summary |-> Object("RiskSummary",
                                    [risk_score |-> computed.risk_summary.risk_score,
                                     risk_level |-> computed.risk_summary.risk_level,
                                     confidence |-> computed.risk_summary.confidence,
                                     overall_assessment |-> text]),
            factors |-> [i \in 1..Len(computed.factors) |->
                            Object("RiskFactor", computed.factors[i])],
            recommendations |-> computed.recommendations,
            historical_context |-> historical_context,
            model_details |-> model_details,
            text_summary |-> text])

\* the contract of the no-commit branch of assess_commits_contract
NoChangesContract(computed, deployment_region) ==
    RiskContract(computed, deployment_region,
                 Object("HistoricalContext",
                        [previous_similar_changes |-> 0, previous_incidents_in_region |-> 0,
                         last_incident_cause |-> <<>>, time_since_last_outage_days |-> <<>>]),
                 Object("ModelDetails",
                        [model_version |-> "2.0.0", model_type |-> "hybrid_rule_ml",
                         trained_on_releases |-> <<>>, last_updated |-> <<>>]),
                 "No changes detected between refs.")

\* asdict of a dataclass with no nested dataclass
asdict(object) == object.fields

\* RiskContract.to_dict: asdict(self), nested dataclasses become dicts
RiskContract_to_dict(contract) ==
    LET self == contract.fields IN
    [id |-> self.id, timestamp |-> self.timestamp, repository |-> self.repository,
     branch |-> self.branch, deployment_region |-> self.deployment_region,
     risk_summary |-> asdict(self.risk_summary),
     factors |-> [i \in 1..Len(self.factors) |-> asdict(self.factors[i])],
     recommendations |-> self.recommendations,
     historical_context |-> asdict(self.historical_context),
     model_details |-> asdict(self.model_details),
     text_summary |-> self.text_summary]

\* from_dict leaving the factors as the dicts they were given as
RiskContract_from_dict_plain_factors(data) ==
    Object("RiskContract",
           [id |-> data.id, timestamp |-> data.timestamp, repository |-> data.repository,
            branch |-> data.branch, deployment_region |-> data.deployment_region,
            risk_summary |-> Object("RiskSummary", data.risk_summary),
            factors |-> data.factors,
            recommendations |-> data.recommendations,
            historical_context |-> Object("HistoricalContext", data.historical_context),
            model_details |-> Object("ModelDetails", data.model_details),
            text_summary |-> data.text_summary])

\* RiskContract.from_dict
RiskContract_from_dict(data) ==
    Object("RiskContract",
           [id |-> data.id, timestamp |-> data.timestamp, repository |-> data.repository,
            branch |-> data.branch, deployment_region |-> data.deployment_region,
            risk_summary |-> Object("RiskSummary", data.risk_summary),
            factors |-> [i \in 1..Len(data.factors) |-> Object("RiskFactor", data.factors[i])],
            recommendations |-> data.recommendations,
            historical_context |-> Object("HistoricalContext", data.historical_context),
            model_details |-> Object("ModelDetails", data.model_details),
            text_summary |-> data.text_summary])

\* the contract objects the returned call can have handed back
ReturnedContracts ==
    IF GeneratedContract
    THEN {RiskContract(ret.value.contract, call.deployment_region, context,
                       ModelDetails(records["h1"]), "generated text") :
            context \in generate_historical_context(
                            search_by_files(records["h1"], ChangedFilesOf, "IssueCatalog"))}
    ELSE {NoChangesContract(ret.value.contract, call.deployment_region)}

\* C22: RiskContract.from_dict(contract.to_dict()) equals contract field for
\* field (nested risk_summary, factors in order, recommendations,
\* historical_context and model_details with their None values) for every
\* contract the engine generates, the zero-commit contract included.
C22_DictRoundTrip ==
    Contracted =>
        \A contract \in ReturnedContracts :
            RiskContract_from_dict(RiskContract_to_dict(contract)) = contract

\* C22 witness: a generated contract with several factors, an incident
\* cause on record and an unparsable incident date
C22_Witness ==
    /\ GeneratedContract
    /\ Len(ret.value.contract.factors) >= 3
    /\ \E contract \in ReturnedContracts :
          /\ contract.fields.historical_context.fields.last_incident_cause # <<>>
          /\ contract.fields.historical_context.fields.time_since_last_outage_days = <<>>

(***************************************************************************)
(* Recording incident feedback and assessing afterwards.                   *)
(***************************************************************************)
\* f"feedback-{uuid.uuid4().hex[:12]}": an id no entry of the catalog has
feedback_id(entries) == "feedback-r" \o ToString(Len(entries) + 1)

\* an incident being reported to the engine
RecordCall(incident_date, severity, affected_files) ==
    [op |-> "record_incident_feedback", returned |-> FALSE, trace |-> <<>>,
     incident_date |-> incident_date, severity |-> severity,
     affected_files |-> affected_files]

\* RiskEngine.record_incident_feedback: the feedback catalog is object h2
RecordIncidentFeedback ==
    /\ call.op = "record_incident_feedback"
    /\ ~call.returned
    /\ LET entry == Entry(feedback_id(records["h2"]), 1, call.severity,
                          call.incident_date, call.affected_files)
           entries == add_feedback(records["h2"], entry)
       IN  /\ records' = [records EXCEPT !["h2"] = entries]
           /\ file' = [file EXCEPT !["feedback.json"] = save_file(@, entries, "FeedbackCatalog")]
           /\ latest' = [latest EXCEPT !["h2"] = latest_after("h2", entry)]
           /\ sched' = "off" /\ sx' = <<>> /\ readd' = <<"off">>
           /\ ret' = Returned(entry)
           /\ call' = [call EXCEPT !.returned = TRUE]
    /\ UNCHANGED <<cls, status, dom, engVars>>

\* the caller asks the engine for its next assessment
Request(c) ==
    /\ call.returned
    /\ call' = c
    /\ ret' = <<>>
    /\ UNCHANGED <<catVars, obsVars, engVars>>

\* weights under which the history score does not count
NoHistoryConfig ==
    [DefaultConfig EXCEPT !.complexity_weight = Rat(6, 10), !.history_weight = Zero]

\* feedback already on record: none; an old incident; three critical
\* incidents of today; an incident dated with an offset
RecordedBefore ==
    {<<>>,
     <<Entry("feedback-1", 1, "High", Naive(200), <<p_api>>)>>,
     <<Entry("feedback-1", 1, "critical", Naive(0), <<p_api>>),
       Entry("feedback-2", 1, "critical", Naive(0), <<p_api>>),
       Entry("feedback-3", 1, "critical", Naive(0), <<p_api>>)>>,
     <<Entry("feedback-1", 1, "High", Aware(0), <<p_src>>)>>}

RecordCalls ==
    {RecordCall(date, "critical", files) :
        date \in {Naive(0), Naive(179), Naive(200), Aware(0), Unparsable},
        files \in {<<p_api>>, <<p_readme>>}}
    \cup {RecordCall(Naive(0), "low", <<p_api>>)}

RecordAssessCalls ==
    {PullRequestCall("assess_pull_request_contract", <<PullRequest(files, 614, 10, 1)>>,
                     LLMFailure) :
        files \in {<<p_api>>, <<p_readme, p_api>>, <<p_readme>>}}

InitRecord ==
    /\ cls = [h \in Handles |-> IF h = "h1" THEN "IssueCatalog" ELSE "FeedbackCatalog"]
    /\ dom = {}
    /\ \E issues \in EngineIssues, entries \in RecordedBefore :
           /\ records = [h \in Handles |-> IF h = "h1" THEN issues ELSE entries]
           /\ file = [p \in StorePaths |->
                        IF p = "catalog.json"
                        THEN (IF issues = <<>> THEN NoFile
                              ELSE save_file(NoFile, issues, "IssueCatalog"))
                        ELSE IF p = "feedback.json"
                        THEN (IF entries = <<>> THEN NoFile
                              ELSE save_file(NoFile, entries, "FeedbackCatalog"))
                        ELSE NoFile]
    /\ status = [h \in Handles |-> "ready"]
    /\ InitObservers
    /\ config \in {DefaultConfig, NoHistoryConfig}
    /\ call \in RecordCalls
    /\ ret = <<>>

NextRecord ==
    \/ RecordIncidentFeedback
    \/ \E c \in RecordAssessCalls : Request(c)
    \/ AssessPullRequestContract

SpecRecord == InitRecord /\ [][NextRecord]_vars

\* a contract was asked for a change sharing a file with the critical entry
\* e of the feedback catalog
AssessedWith(e) ==
    /\ call.op = "assess_pull_request_contract"
    /\ call.returned
    /\ e.severity = "critical"
    /\ Range(e.affected_files) \cap Range(call.pr[1].files) # {}

\* the feedback catalog without the entry e
Without(e) == SelectSeq(records["h2"], LAMBDA x : x.id # e.id)

\* the same assessment made with other feedback on record
Baseline(entries) ==
    generate_risk_contract(config, records["h1"], entries, call.pr[1].files,
                           call.pr[1].additions, call.pr[1].deletions,
                           call.pr[1].commits, call.reply)

HasFeedbackFactor ==
    \E i \in 1..Len(ret.value.contract.factors) :
        ret.value.contract.factors[i].factor_name = "Incident History (Feedback)"

\* C18 as stated: whatever the catalogs hold, once a critical feedback entry
\* whose affected_files include F is recorded, the contract of a change whose
\* files include F has an 'Incident History (Feedback)' factor, and its
\* history score and overall score are strictly greater than those of the
\* same assessment without that entry.
C18_StrictlyGreater ==
    \A i \in 1..Len(records["h2"]) :
        LET e == records["h2"][i] IN
        AssessedWith(e) =>
            /\ ret.error = ""
            /\ HasFeedbackFactor
            /\ \A b \in Baseline(Without(e)) :
                   /\ b.error = ""
                   /\ RLt(b.value.history_score, ret.value.history_score)
                   /\ RLt(b.value.overall_score, ret.value.overall_score)

\* C18 (amended): the assessment raises TypeError exactly when a matching
\* entry in the recency window has a timezone-aware date; otherwise the
\* contract has the 'Incident History (Feedback)' factor, history and overall
\* score are not below those of the same assessment without the entry, the
\* history score is strictly greater exactly when the entry is scored (date
\* parsable and within recent_days) and the feedback score without it was
\* below 1.0, and the overall score is strictly greater exactly when the
\* history score is and history_weight is positive.
C18_FeedbackCounts ==
    \A i \in 1..Len(records["h2"]) :
        LET e == records["h2"][i]
            files == call.pr[1].files
        IN  AssessedWith(e) =>
            /\ ret.error \in {"", "TypeError"}
            /\ ret.error = "TypeError" <=>
                   \E j \in 1..Len(records["h2"]) :
                       /\ records["h2"][j].incident_date.kind = "aware"
                       /\ Scored(records["h2"][j], files)
            /\ ret.error = "" =>
                   /\ HasFeedbackFactor
                   /\ \A b \in Baseline(Without(e)) :
                          LET before == calculate_feedback_risk_score(Without(e), files, RecentDays)
                              raised == RLt(b.value.history_score, ret.value.history_score)
                          IN  /\ b.error = "" /\ before.error = ""
                              /\ RLe(b.value.history_score, ret.value.history_score)
                              /\ RLe(b.value.overall_score, ret.value.overall_score)
                              /\ raised <=> (Scored(e, files) /\ RLt(before.value, One))
                              /\ RLt(b.value.overall_score, ret.value.overall_score)
                                     <=> (raised /\ RLt(Zero, config.history_weight))

\* a critical incident of today recorded in an empty feedback catalog raises
\* the history score of the contract of a change to its file
C18_Witness ==
    /\ call.op = "assess_pull_request_contract"
    /\ call.returned
    /\ ret.error = ""
    /\ records["h2"] = <<Entry(feedback_id(<<>>), 1, "critical", Naive(0), <<p_api>>)>>
    /\ call.pr[1].files = <<p_readme, p_api>>
    /\ HasFeedbackFactor
    /\ \A b \in Baseline(<<>>) : RLt(b.value.history_score, ret.value.history_score)

\* the recommendations the engine takes over from the LLM analysis
AdvisoryItems ==
    IF config.llm THEN Range(take(analyze_deployment_risk(call.reply).recommendations, 3))
    ELSE {}

\* C19: the recommendations of a contract hold no item twice, are at most
\* six, and every item taken from the LLM analysis stands before every
\* rule-based item.
C19_Recommendations ==
    Contracted =>
        LET recs == ret.value.contract.recommendations IN
        /\ \A i, j \in 1..Len(recs) : recs[i] = recs[j] => i = j
        /\ Len(recs) <= 6
        /\ \A i, j \in 1..Len(recs) : (i < j /\ recs[j] \in AdvisoryItems) => recs[i] \in AdvisoryItems

\* three LLM items, one of them given twice, and more than three rule-based
\* items: six are kept
C19_Witness ==
    /\ GeneratedContract
    /\ call.reply.recommendations =
           <<"Add a runbook", "Add a runbook", "Notify on-call", "Freeze deploys", "Add alerts">>
    /\ ret.value.contract.recommendations =
           <<"Add a runbook", "Notify on-call", Canary, Rollback, SmokeTests, ValidationTests>>

\* the lines the assessed change adds and deletes
ChangedLinesOf ==
    IF call.op = "assess_pull_request_contract"
    THEN call.pr[1].additions + call.pr[1].deletions
    ELSE LET commits == get_commits_between_refs(call.range, call.compare_error)
         IN  total_additions(commits) + total_deletions(commits)

IsHigh == ret.value.contract.risk_summary.risk_level = "HIGH"
TouchesCritical == identify_critical_files(ChangedFilesOf) # <<>>
IssueMatched == search_by_files(records["h1"], ChangedFilesOf, "IssueCatalog") # <<>>

\* C20 as stated: the recommendations of a generated contract include the
\* canary and the rollback item whenever the tier is HIGH, the extended
\* smoke-test item whenever a critical file is touched, the review-history
\* item whenever an issue matched, and the incremental-deployment item
\* whenever more than 500 lines changed; that last item appears only then,
\* unless the LLM analysis gave the same text.
C20_RuleItemsPresent ==
    GeneratedContract =>
        LET recs == Range(ret.value.contract.recommendations) IN
        /\ IsHigh => (Canary \in recs /\ Rollback \in recs)
        /\ TouchesCritical => SmokeTests \in recs
        /\ IssueMatched => ReviewHistory \in recs
        /\ ChangedLinesOf > 500 => Incremental \in recs
        /\ (Incremental \in recs /\ Incremental \notin AdvisoryItems) => ChangedLinesOf > 500

\* C20 (amended): canary, rollback and smoke-test item as stated; the
\* review-history item (an issue matched) and the incremental-deployment
\* item (more than 500 lines changed) are included exactly when fewer than
\* six distinct items stand before them: the LLM items, then canary and
\* rollback, then the two critical-file items, then review-history; with no
\* LLM analyzer configured every item is included; the incremental item
\* appears only for more than 500 changed lines or as an LLM item.
C20_RuleItemsKept ==
    GeneratedContract =>
        LET recs == Range(ret.value.contract.recommendations)
            before_review ==
                AdvisoryItems
                \cup (IF IsHigh THEN {Canary, Rollback} ELSE {})
                \cup (IF TouchesCritical THEN {SmokeTests, ValidationTests} ELSE {})
            before_incremental ==
                before_review \cup (IF IssueMatched THEN {ReviewHistory} ELSE {})
        IN  /\ IsHigh => (Canary \in recs /\ Rollback \in recs)
            /\ TouchesCritical => SmokeTests \in recs
            /\ IssueMatched =>
                   (ReviewHistory \in recs <=>
                        (ReviewHistory \in before_review \/ Cardinality(before_review) < 6))
            /\ ChangedLinesOf > 500 =>
                   (Incremental \in recs <=>
                        (Incremental \in before_incremental \/ Cardinality(before_incremental) < 6))
            /\ ~config.llm =>
                   /\ IssueMatched => ReviewHistory \in recs
                   /\ ChangedLinesOf > 500 => Incremental \in recs
            /\ (Incremental \in recs /\ Incremental \notin AdvisoryItems) => ChangedLinesOf > 500

\* a HIGH contract of a large change to a critical file with a matching
\* issue and three LLM items: review-history and incremental are cut
C20_Witness ==
    /\ GeneratedContract
    /\ IsHigh /\ TouchesCritical /\ IssueMatched /\ ChangedLinesOf > 500
    /\ ret.value.contract.recommendations =
           <<"Add a runbook", "Notify on-call", "Freeze deploys", Canary, Rollback, SmokeTests>>

(***************************************************************************)
(* The flat and the contract pipeline side by side (SpecPipelines).        *)
(***************************************************************************)
\* the advisory score alone decides, under the default cutoffs
AdvisoryOnlyConfig ==
    [DefaultConfig EXCEPT !.complexity_weight = Zero, !.history_weight = Zero,
                          !.llm_weight = One, !.llm = TRUE]

PipelineConfigs ==
    {DefaultConfig, [DefaultConfig EXCEPT !.llm = TRUE], LLMOnlyConfig, AdvisoryOnlyConfig}

\* advisory scores at, below and between the cutoffs of both APIs
PipelineScores ==
    {Rat(29, 100), Rat(3, 10), Rat(32, 100), Rat(33, 100), Rat(5, 10), Rat(6, 10),
     Rat(66, 100), Rat(7, 10), Rat(79, 100), Rat(8, 10), Rat(9, 10)}

PipelineReplies ==
    {LLMFailure} \cup {LLMReply(<<x>>, "high", <<>>) : x \in PipelineScores}

\* no change; a small one; the change with the highest complexity score
PipelinePullRequests ==
    {PullRequest(<<>>, 0, 0, 0),
     PullRequest(<<p_api, p_readme>>, 614, 10, 1),
     PullRequest(SchemaFiles(MaxFiles) \o <<p_api, <<"docker/", "Dockerfile">>>>, 3000, 400, 1)}

PipelineCalls ==
    {PullRequestCall(op, <<pr>>, reply) :
        op \in {"assess_pull_request", "assess_pull_request_contract"},
        pr \in PipelinePullRequests, reply \in PipelineReplies}
    \cup {RangeCall(op, range, <<>>, reply) :
        op \in {"assess_commits", "assess_commits_contract"},
        range \in CommitRanges, reply \in PipelineReplies}

InitPipelines ==
    /\ cls = [h \in Handles |-> IF h = "h1" THEN "IssueCatalog" ELSE "FeedbackCatalog"]
    /\ dom = {}
    /\ \E issues \in EngineIssues, entries \in EngineFeedback :
           records = [h \in Handles |-> IF h = "h1" THEN issues ELSE entries]
    /\ status = [h \in Handles |-> "ready"]
    /\ file = [p \in StorePaths |-> NoFile]
    /\ InitObservers
    /\ config \in PipelineConfigs
    /\ call \in PipelineCalls
    /\ ~config.llm => call.reply = LLMFailure
    /\ ret = <<>>

NextPipelines ==
    \/ AssessPullRequest
    \/ AssessPullRequestContract
    \/ AssessCommits
    \/ AssessCommitsContract

SpecPipelines == InitPipelines /\ [][NextPipelines]_vars

\* a flat assessment has been returned
FlatAssessed ==
    /\ call.op \in {"assess_pull_request", "assess_commits"}
    /\ call.returned
    /\ ret.error = ""

\* C23: the flat API classifies the overall score by the configured cutoffs
\* with strict less-than: low below low_threshold, medium below
\* medium_threshold, high below high_threshold, critical otherwise; the
\* contract API's fixed 0.33 and 0.66 play no part in it.
C23_FlatLevels ==
    FlatAssessed =>
        LET overall == ret.value.overall_risk_score
            level == ret.value.risk_level
        IN  /\ level = "low" <=> RLt(overall, config.low_threshold)
            /\ level = "medium" <=> /\ RLe(config.low_threshold, overall)
                                    /\ RLt(overall, config.medium_threshold)
            /\ level = "high" <=> /\ RLe(config.medium_threshold, overall)
                                  /\ RLt(overall, config.high_threshold)
            /\ level = "critical" <=> RLe(config.high_threshold, overall)

\* C23 witness: cutoffs other than the defaults, an overall score equal to
\* low_threshold (above 0.33), and the level is medium
C23_Witness ==
    /\ FlatAssessed
    /\ config.low_threshold = Rat(5, 10)
    /\ ret.value.overall_risk_score = config.low_threshold
    /\ ret.value.risk_level = "medium"

\* the changes a returned call assessed
AssessedChanges ==
    IF call.op \in {"assess_pull_request", "assess_pull_request_contract"}
    THEN {call.pr[1]}
    ELSE AggregatedChanges(get_commits_between_refs(call.range, call.compare_error))

DefaultCutoffs ==
    /\ config.low_threshold = DefaultConfig.low_threshold
    /\ config.medium_threshold = DefaultConfig.medium_threshold
    /\ config.high_threshold = DefaultConfig.high_threshold

\* r is x rounded to two decimals: a multiple of 0.01 at most 0.005 from x
RoundedTo2(r, x) ==
    /\ 100 % r[2] = 0
    /\ RLe(x, RAdd(r, Rat(1, 200)))
    /\ RLe(r, RAdd(x, Rat(1, 200)))

\* C29: for the same change, catalogs and advisory reply, _assess_changes and
\* _generate_risk_contract end alike and compute the same overall score, the
\* contract's risk_score is that score rounded to two decimals, and under
\* the default cutoffs flat low implies LOW and flat critical implies HIGH.
C29_SameOverall ==
    (call.returned /\ call.op \in {"assess_pull_request", "assess_commits"}
                   /\ \E i \in 1..Len(call.trace) : call.trace[i] = "analyze_changes") =>
        \A change \in AssessedChanges :
            ret = Assessed(change) =>
                \A generated \in Generated(change) :
                    /\ generated.error = ret.error
                    /\ ret.error = "" =>
                        LET summary == generated.value.contract.risk_summary
                            flat == ret.value
                        IN  /\ generated.value.overall_score = flat.overall_risk_score
                            /\ RoundedTo2(summary.risk_score, flat.overall_risk_score)
                            /\ DefaultCutoffs =>
                                /\ flat.risk_level = "low" => summary.risk_level = "LOW"
                                /\ flat.risk_level = "critical" => summary.risk_level = "HIGH"

\* C29 witness: a flat assessment at 'low' whose overall score has more than
\* two decimals, with issues and feedback matched and an advisory reply
C29_Witness ==
    /\ FlatAssessed
    /\ \E i \in 1..Len(call.trace) : call.trace[i] = "analyze_changes"
    /\ DefaultCutoffs
    /\ config.llm /\ ~call.reply.failed
    /\ ret.value.related_issues_count > 0
    /\ ret.value.risk_level \in {"low", "critical"}
    /\ ~RoundedTo2(ret.value.overall_risk_score, ret.value.overall_risk_score)

\* no issue and no feedback entry matches the files of the assessed change
NothingMatched ==
    \A change \in AssessedChanges :
        /\ search_by_files(records["h1"], change.files, "IssueCatalog") = <<>>
        /\ search_by_files(records["h2"], change.files, "FeedbackCatalog") = <<>>

\* a pipeline run (flat or contract) has returned a result
PipelineRan ==
    /\ call.returned
    /\ ret.error = ""
    /\ \E i \in 1..Len(call.trace) : call.trace[i] = "analyze_changes"

\* the unrounded overall score of the returned result
OverallOf ==
    IF call.op \in {"assess_pull_request", "assess_commits"}
    THEN ret.value.overall_risk_score ELSE ret.value.overall_score

\* C30: with no advisory client, no matching issue or feedback record and
\* the default weights, the overall score of a pipeline run lies in
\* [0.2, 0.5): it is never 0, the contract tier is never HIGH and the flat
\* level is never high or critical.
C30_UnconfiguredRange ==
    (PipelineRan /\ config = DefaultConfig /\ NothingMatched) =>
        /\ RLe(Rat(2, 10), OverallOf)
        /\ RLt(OverallOf, Rat(5, 10))
        /\ call.op \in {"assess_pull_request", "assess_commits"} =>
              ret.value.risk_level \in {"low", "medium"}
        /\ call.op \in {"assess_pull_request_contract", "assess_commits_contract"} =>
              ret.value.contract.risk_summary.risk_level \in {"LOW", "MEDIUM"}

\* C30 witness: the heaviest change (thirteen files, eleven of them critical,
\* 3400 lines in one commit) assessed with nothing matched: above 0.48, MEDIUM
C30_Witness ==
    /\ PipelineRan /\ config = DefaultConfig /\ NothingMatched
    /\ call.op = "assess_pull_request_contract"
    /\ RLt(Rat(48, 100), OverallOf)
    /\ ret.value.contract.risk_summary.risk_level = "MEDIUM"

(***************************************************************************)
(* A second engine constructed on another configured path (SpecIsolation). *)
(***************************************************************************)
\* a configuration naming another catalog path
ElsewhereConfig == [DefaultConfig EXCEPT !.catalog_path = "elsewhere/catalog.json"]

\* FeedbackCatalog(): the default feedback_path, whatever the configuration
feedback_path(cfg) == "feedback.json"

\* RiskEngine.__init__(cfg): a new engine takes the place of the present one,
\* its catalogs loaded from the stores it names
ConstructEngine(cfg) ==
    /\ call.returned
    /\ config' = cfg
    /\ records' = [h \in Handles |->
                     IF h = "h1" THEN load_records(file[cfg.catalog_path])
                     ELSE load_records(file[feedback_path(cfg)])]
    /\ latest' = [h \in Handles |-> Range(records'[h])]
    /\ call' = [op |-> "RiskEngine", returned |-> TRUE, trace |-> <<>>]
    /\ ret' = <<>>
    /\ UNCHANGED <<cls, status, file, dom, readd, sched, sx>>

\* One engine on the default paths, no feedback on record, about to record
InitIsolation ==
    /\ cls = [h \in Handles |-> IF h = "h1" THEN "IssueCatalog" ELSE "FeedbackCatalog"]
    /\ dom = {}
    /\ \E issues \in EngineIssues :
           /\ records = [h \in Handles |-> IF h = "h1" THEN issues ELSE <<>>]
           /\ file = [p \in StorePaths |->
                        IF p = "catalog.json" /\ issues # <<>>
                        THEN save_file(NoFile, issues, "IssueCatalog") ELSE NoFile]
    /\ status = [h \in Handles |-> "ready"]
    /\ InitObservers
    /\ config = DefaultConfig
    /\ call \in RecordCalls
    /\ ret = <<>>

NextIsolation ==
    \/ RecordIncidentFeedback
    \/ \E cfg \in {DefaultConfig, ElsewhereConfig} : ConstructEngine(cfg)
    \/ \E c \in RecordAssessCalls : Request(c)
    \/ AssessPullRequestContract

SpecIsolation == InitIsolation /\ [][NextIsolation]_vars

\* C26: an engine reads and writes the stores its configuration names:
\* feedback recorded through one engine is not visible to an engine
\* constructed afterwards with another configured path, and does not change
\* that engine's scores.
C26_Isolated ==
    config.catalog_path # DefaultConfig.catalog_path =>
        /\ records["h2"] = <<>>
        /\ (call.op = "assess_pull_request_contract" /\ call.returned) =>
              ret \in Baseline(<<>>)

(***************************************************************************)
(* Assessing on a catalog filled by sync (SpecSync). dom holds the issues  *)
(* that were in the catalog before the first sync.                         *)
(***************************************************************************)
StoredBeforeSync ==
    {<<>>,
     <<Issue("github", "1", 1, "High", <<p_api>>)>>,
     <<Issue("jira", "2", 1, NoneSeverity, <<p_src>>)>>}

SyncCalls ==
    {SyncCall("sync_github_issues", issues, FALSE) : issues \in TrackerIssues("github")}
    \cup {SyncCall("sync_jira_issues", issues, FALSE) : issues \in TrackerIssues("jira")}

SyncAssessCalls ==
    {PullRequestCall(op, <<PullRequest(<<p_api>>, 614, 10, 1)>>, reply) :
        op \in {"assess_pull_request", "assess_pull_request_contract"},
        reply \in {LLMFailure, LLMReply(<<One>>, "high", <<"Add a runbook">>)}}

InitSync ==
    /\ cls = [h \in Handles |-> IF h = "h1" THEN "IssueCatalog" ELSE "FeedbackCatalog"]
    /\ \E issues \in StoredBeforeSync,
          entries \in {<<>>, <<Entry("feedback-1", 1, "critical", Naive(0), <<p_api>>)>>} :
           /\ dom = Range(issues)
           /\ records = [h \in Handles |-> IF h = "h1" THEN issues ELSE entries]
           /\ file = [p \in StorePaths |->
                        IF p = "catalog.json" /\ issues # <<>>
                        THEN save_file(NoFile, issues, "IssueCatalog")
                        ELSE IF p = "feedback.json" /\ entries # <<>>
                        THEN save_file(NoFile, entries, "FeedbackCatalog")
                        ELSE NoFile]
    /\ status = [h \in Handles |-> "ready"]
    /\ InitObservers
    /\ config \in {DefaultConfig, [DefaultConfig EXCEPT !.llm = TRUE]}
    /\ call \in SyncCalls
    /\ ret = <<>>

NextSync ==
    \/ SyncGithubIssues
    \/ SyncJiraIssues
    \/ \E c \in SyncCalls \cup SyncAssessCalls : Request(c)
    \/ AssessPullRequest
    \/ AssessPullRequestContract

SpecSync == InitSync /\ [][NextSync]_vars

\* the issues of the catalog that a sync put there
Synced == {issue \in Range(records["h1"]) : issue \notin dom}

SyncQueries == {<<p_api>>, <<p_src>>, <<p_readme, p_api>>}

\* C28: every issue ingested by a sync is stored with empty related_files,
\* so search_by_files returns no synced issue for any query; an assessment on
\* a catalog filled by sync alone has no related issue, an issue score of 0,
\* no 'Historical Issues' factor and no review-history recommendation; and a
\* re-sync of an issue replaces the related_files stored under its key by [].
C28_SyncedIssuesUnrelated ==
    /\ \A issue \in Synced : issue.related_files = <<>>
    /\ \A files \in SyncQueries :
          Range(search_by_files(records["h1"], files, "IssueCatalog")) \cap Synced = {}
    /\ (call.op \in {"sync_github_issues", "sync_jira_issues"} /\ call.returned) =>
          \A i \in 1..Len(call.issues) :
              LET new == cataloged(IF call.op = "sync_github_issues" THEN "github" ELSE "jira",
                                   call.issues[i])
                  at == find_issue(records["h1"], new.source, new.identifier)
              IN  at > 0 /\ records["h1"][at].related_files = <<>>
    /\ (dom = {} /\ call.returned /\ call.op = "assess_pull_request") =>
          /\ ret.value.related_issues_count = 0
          /\ ret.value.history_risk_score =
                RMul(calculate_feedback_risk_score(records["h2"], call.pr[1].files,
                                                   RecentDays).value, Rat(6, 10))
    /\ (dom = {} /\ call.returned /\ call.op = "assess_pull_request_contract") =>
          /\ \A i \in 1..Len(ret.value.contract.factors) :
                ret.value.contract.factors[i].factor_name # "Historical Issues"
          /\ ReviewHistory \notin Range(ret.value.contract.recommendations)

\* C28 witness: an issue stored with related files was synced again and is
\* now stored without them, and a contract for a change to that file has
\* been generated
C28_Witness ==
    /\ dom = {Issue("github", "1", 1, "High", <<p_api>>)}
    /\ \E i \in 1..Len(records["h1"]) :
          /\ records["h1"][i].source = "github" /\ records["h1"][i].identifier = "1"
          /\ records["h1"][i].related_files = <<>>
    /\ call.op = "assess_pull_request_contract" /\ call.returned
    /\ \A i \in 1..Len(ret.value.contract.factors) :
          ret.value.contract.factors[i].factor_name # "Historical Issues"

(***************************************************************************)
(* What each operation touches (SpecFootprint): one engine, its catalogs   *)
(* also used directly.                                                     *)
(***************************************************************************)
MaxRecorded == 2    \* entries on record beyond which no incident is recorded

\* IssueCatalog.get_statistics (total and by_source)
get_statistics(issues) ==
    [total_issues |-> Len(issues),
     by_source |-> [s \in {issues[i].source : i \in 1..Len(issues)} |->
                      Cardinality({i \in 1..Len(issues) : issues[i].source = s})]]

FindIssue(h, source, identifier) ==
    /\ cls[h] = "IssueCatalog" /\ status[h] = "ready"
    /\ call' = [op |-> "find_issue", h |-> h]
    /\ ret' = LET i == find_issue(records[h], source, identifier)
              IN  IF i = 0 THEN <<>> ELSE <<records[h][i]>>
    /\ UNCHANGED <<catVars, obsVars, engVars>>

GetRecentFeedback(h) ==
    /\ cls[h] = "FeedbackCatalog" /\ status[h] = "ready"
    /\ call' = [op |-> "get_recent_feedback", h |-> h]
    /\ ret' = get_recent_feedback(records[h], 90)
    /\ UNCHANGED <<catVars, obsVars, engVars>>

GetStatistics(h) ==
    /\ cls[h] = "IssueCatalog" /\ status[h] = "ready"
    /\ call' = [op |-> "get_statistics", h |-> h]
    /\ ret' = get_statistics(records[h])
    /\ UNCHANGED <<catVars, obsVars, engVars>>

\* no engine call is under way
Idle == IF "returned" \in DOMAIN call THEN call.returned ELSE TRUE

\* the caller asks the engine for c
Ask(c) ==
    /\ Idle
    /\ call' = c
    /\ ret' = <<>>
    /\ UNCHANGED <<catVars, obsVars, engVars>>

FootprintIssues ==
    {Issue("github", "1", 1, "High", <<p_api>>), Issue("github", "1", 2, "low", <<>>)}

FootprintEntries == {Entry("feedback-1", 1, "critical", Naive(0), <<p_api>>)}

FootprintCalls ==
    {SyncCall("sync_github_issues", <<GitHubIssue("1", 2, <<"bug", "P0">>)>>, FALSE),
     SyncCall("sync_jira_issues", <<JiraIssue("2", 2, "High")>>, FALSE),
     RecordCall(Naive(0), "critical", <<p_api>>)}
    \cup {PullRequestCall(op, <<PullRequest(<<p_api>>, 614, 10, 1)>>, LLMFailure) :
            op \in {"assess_pull_request", "assess_pull_request_contract"}}
    \cup {RangeCall(op, <<Commit(<<p_api>>, 614, 10)>>, <<>>, LLMFailure) :
            op \in {"assess_commits", "assess_commits_contract"}}

InitFootprint ==
    /\ cls = [h \in Handles |-> IF h = "h1" THEN "IssueCatalog" ELSE "FeedbackCatalog"]
    /\ dom = {}
    /\ records = [h \in Handles |-> <<>>]
    /\ status = [h \in Handles |-> "ready"]
    /\ file = [p \in StorePaths |-> NoFile]
    /\ InitObservers
    /\ config = DefaultConfig
    /\ NoCall

NextFootprint ==
    \/ Idle /\ \E issue \in FootprintIssues : AddIssue("h1", issue)
    \/ Idle /\ \E a \in FootprintIssues, b \in FootprintIssues : a # b /\ AddIssues("h1", a, b)
    \/ Idle /\ \E entry \in FootprintEntries : AddFeedback("h2", entry)
    \/ Idle /\ \E h \in Handles : Save(h)
    \/ Idle /\ \E h \in Handles : SearchByFiles(h, <<p_api>>)
    \/ Idle /\ FindIssue("h1", "github", "1")
    \/ Idle /\ GetRecentFeedback("h2")
    \/ Idle /\ GetStatistics("h1")
    \/ Idle /\ CalculateFeedbackRiskScore("h2", <<p_api>>)
    \/ \E c \in FootprintCalls :
          /\ c.op = "record_incident_feedback" => Len(records["h2"]) < MaxRecorded
          /\ Ask(c)
    \/ SyncGithubIssues
    \/ SyncJiraIssues
    \/ RecordIncidentFeedback
    \/ AssessPullRequest
    \/ AssessPullRequestContract
    \/ AssessCommits
    \/ AssessCommitsContract

SpecFootprint == InitFootprint /\ [][NextFootprint]_vars

\* C24: the persisted store of a catalog changes only during a save (those
\* of the syncs and of record_incident_feedback included) and the in-memory
\* sequence only during add operations: adds leave the store as it is, and
\* find, search, get_recent, get_statistics, calculate_feedback_risk_score
\* and every assessment or contract generation leave both as they are.
C24_Footprint ==
    [][/\ file' # file =>
            \/ \E h \in Handles : Save(h)
            \/ SyncGithubIssues \/ SyncJiraIssues \/ RecordIncidentFeedback
       /\ records' # records =>
            \/ \E issue \in FootprintIssues : AddIssue("h1", issue)
            \/ \E a \in FootprintIssues, b \in FootprintIssues : AddIssues("h1", a, b)
            \/ \E entry \in FootprintEntries : AddFeedback("h2", entry)
            \/ SyncGithubIssues \/ SyncJiraIssues \/ RecordIncidentFeedback]_vars

\* C24 witness: a contract was generated while both catalogs held records
\* added since their stores were last written
C24_Witness ==
    /\ call.op = "assess_pull_request_contract" /\ call.returned
    /\ file["catalog.json"].exists /\ file["feedback.json"].exists
    /\ records["h1"] # load_records(file["catalog.json"])
    /\ records["h2"] # load_records(file["feedback.json"])

(***************************************************************************)
(* Writers taking turns on one store (SpecWriters): a writer constructs    *)
(* its catalog, adds, saves and is done before the next one constructs     *)
(* its own. Here latest[h] is, for both h alike, the record most recently  *)
(* added per key by any writer, and sx lists the first writers that saved. *)
(***************************************************************************)
MaxWriters == 2     \* writers listed in sx

\* the writer's catalog is constructed; no other writer is at work
WriterLoad(h) ==
    /\ \A g \in Handles : status[g] = "none"
    /\ load_ok(file[StoreOf(h)])
    /\ records' = [records EXCEPT ![h] = load_records(file[StoreOf(h)])]
    /\ status' = [status EXCEPT ![h] = "ready"]
    /\ UNCHANGED <<cls, file, dom, latest, readd, sched, sx, engVars, callVars>>

\* add_issue / add_feedback by the writer at work
WriterAdd(h, r) ==
    /\ status[h] = "ready"
    /\ records' = [records EXCEPT ![h] = IF cls[h] = "IssueCatalog" THEN add_issue(@, r)
                                         ELSE add_feedback(@, r)]
    /\ latest' = [g \in Handles |->
                    {o \in latest[g] : KeyOf(o, cls[h]) # KeyOf(r, cls[h])} \cup {r}]
    /\ UNCHANGED <<cls, status, file, dom, readd, sched, sx, engVars, callVars>>

\* save() by the writer at work, which is then done
WriterSave(h) ==
    /\ status[h] = "ready"
    /\ file' = [file EXCEPT ![StoreOf(h)] = save_file(@, records[h], cls[h])]
    /\ status' = [status EXCEPT ![h] = "none"]
    /\ records' = [records EXCEPT ![h] = <<>>]
    /\ sx' = IF Len(sx) < MaxWriters THEN Append(sx, h) ELSE sx
    /\ UNCHANGED <<cls, dom, latest, readd, sched, engVars, callVars>>

NextWriters ==
    \E h \in Handles :
        \/ WriterLoad(h)
        \/ \E r \in dom : WriterAdd(h, r)
        \/ WriterSave(h)

SpecWriters == InitCatalog /\ [][NextWriters]_vars

\* the records a store holds, read off its JSON
Persisted(p) == {from_dict(json_load(file[p].recs[i])) : i \in 1..Len(file[p].recs)}

\* C25: with one writer at a time (load, adds and save complete before the
\* next writer loads) no update is lost: after a writer's save the store
\* holds, for every key added by any writer, the record most recently added
\* for that key, and nothing else.
C25_NoLostUpdate ==
    (\A h \in Handles : status[h] = "none") =>
        /\ Persisted(StoreOf("h1")) = latest["h1"]
        /\ Len(file[StoreOf("h1")].recs) = Cardinality(latest["h1"])

\* C25 witness: two writers have saved in turn and the store holds two keys
C25_Witness ==
    /\ \A h \in Handles : status[h] = "none"
    /\ Len(sx) >= 2 /\ sx[1] # sx[2]
    /\ Len(file[StoreOf("h1")].recs) = 2
====
